---- MODULE Spec2Model ----
(***************************************************************************)
(* Model of the recurrence engine of facienda                              *)
(* (internal/recurrence/recurrence.go): ParsePattern, Pattern.String and   *)
(* Pattern.NextOccurrence with its four occurrence calculators.            *)
(*                                                                         *)
(* Text (Go string) is a sequence of one-character strings, a Pattern is   *)
(* the text of its Go string value ("weekly:monday", "monthly:15", ...),   *)
(* and a time.Time is a record of its civil fields.  All instants are in   *)
(* one location without clock changes (the tests use time.UTC).            *)
(***************************************************************************)
EXTENDS Integers, Sequences, FiniteSets, TLC

VARIABLES
    form,       \* how the caller put the input text together
    input,      \* the text handed to ParsePattern
    pat,        \* the Pattern held by the caller (result of the last parse)
    perr,       \* the error of the last ParsePattern call
    shown,      \* the text returned by the last Pattern.String call
    shownOf,    \* the pattern that text was rendered from
    after,      \* the reference instant handed to NextOccurrence
    result,     \* the time.Time returned by NextOccurrence
    err,        \* the error returned by NextOccurrence
    pc,         \* position of the caller
    recurring,  \* the answer of the last Pattern.IsRecurring call
    again,      \* a second ParsePattern call, on the input spelled another way
    steps,      \* iterations of each loop during the last NextOccurrence call
    tasks,      \* table tasks of the store: row i is the task with ID i
    tags,       \* table tags of the store: row i is the name of the tag with ID i
    taskTags,   \* table task_tags of the store: pairs <<task ID, tag ID>>
    before,     \* the three tables as they were when the last command started
    cmd         \* the last command: its arguments and the error it returned

storeVars == <<tasks, tags, taskTags, before, cmd>>

vars == <<form, input, pat, perr, shown, shownOf, after, result, err, pc,
          recurring, again, steps, storeVars>>

-----------------------------------------------------------------------------
(* Bounds of the model *)

\* reference dates range over the years FirstYear .. LastYear
FirstYear == 2024
LastYear == 2025

\* the numbers written in input texts range over 0 .. MaxNumber
MaxNumber == 100

-----------------------------------------------------------------------------
(* Errors *)

Nil == "nil"
ErrInvalidPattern == "invalid recurrence pattern"
ErrInvalidDay == "invalid day for monthly recurrence"

-----------------------------------------------------------------------------
(* The time package, as far as the engine uses it *)

\* time.Weekday values
Sunday == 0
Monday == 1
Friday == 5
Saturday == 6

IsLeap(y) == (y % 4 = 0) /\ ((y % 100 # 0) \/ (y % 400 = 0))

DaysIn(y, m) ==
    IF m = 2 THEN (IF IsLeap(y) THEN 29 ELSE 28)
    ELSE IF m \in {4, 6, 9, 11} THEN 30 ELSE 31

\* days of the year before the first of month m (m in 1..13)
DaysBefore(y, m) ==
    <<0, 31, 59, 90, 120, 151, 181, 212, 243, 273, 304, 334, 365>>[m]
        + (IF m > 2 /\ IsLeap(y) THEN 1 ELSE 0)

\* days from 0001-01-01 to the first of January of year y
DaysBeforeYear(y) ==
    365 * (y - 1) + ((y - 1) \div 4) - ((y - 1) \div 100) + ((y - 1) \div 400)

\* day number of a civil date whose month is in 1..12; the day may be any
\* integer (day 0 is the last day of the month before, day 32 spills over)
AbsDay(y, m, d) == DaysBeforeYear(y) + DaysBefore(y, m) + d - 1

\* the year holding day number n: the one year y whose days begin at or
\* before n and end after it
YearOfAbs(n) ==
    CHOOSE y \in ((n \div 366) - 1)..((n \div 365) + 2) :
        DaysBeforeYear(y) <= n /\ n < DaysBeforeYear(y + 1)

\* time.Date(year, month, day, hour, min, sec, 0, loc): month and day are
\* normalised (October 32 becomes November 1, month 13 becomes January)
Date(y, m, d, h, mi, s) ==
    LET n == AbsDay(y + ((m - 1) \div 12), ((m - 1) % 12) + 1, d)
        OnDay(yr, yday) ==
            LET mo == CHOOSE k \in 1..12 :
                          DaysBefore(yr, k) <= yday /\ yday < DaysBefore(yr, k + 1)
            IN  [year |-> yr, month |-> mo, day |-> yday - DaysBefore(yr, mo) + 1,
                 hour |-> h, minute |-> mi, second |-> s]
    IN  OnDay(YearOfAbs(n), n - DaysBeforeYear(YearOfAbs(n)))

\* time.Time{}
ZeroTime == [year |-> 1, month |-> 1, day |-> 1, hour |-> 0, minute |-> 0, second |-> 0]

\* t.AddDate(years, months, days)
AddDate(t, years, months, days) ==
    Date(t.year + years, t.month + months, t.day + days, t.hour, t.minute, t.second)

\* the day number of t's calendar date
DayNumber(t) == AbsDay(t.year, t.month, t.day)

SecondOfDay(t) == 3600 * t.hour + 60 * t.minute + t.second

\* t.After(u)
After(t, u) ==
    \/ DayNumber(t) > DayNumber(u)
    \/ DayNumber(t) = DayNumber(u) /\ SecondOfDay(t) > SecondOfDay(u)

\* t.Weekday(): 0001-01-01 is a Monday
Weekday(t) == (DayNumber(t) + 1) % 7

-----------------------------------------------------------------------------
(* Text: the strings, strconv and fmt calls of the engine *)

LowerLetters == <<"a", "b", "c", "d", "e", "f", "g", "h", "i", "j", "k", "l", "m",
                  "n", "o", "p", "q", "r", "s", "t", "u", "v", "w", "x", "y", "z">>
UpperLetters == <<"A", "B", "C", "D", "E", "F", "G", "H", "I", "J", "K", "L", "M",
                  "N", "O", "P", "Q", "R", "S", "T", "U", "V", "W", "X", "Y", "Z">>
Digits == <<"0", "1", "2", "3", "4", "5", "6", "7", "8", "9">>

Range(f) == {f[i] : i \in DOMAIN f}

\* two letters outside ASCII, each written as one character of a text by
\* its code point: the long s and the dotless i.  Both are lower-case
\* letters whose upper case is an ASCII letter (unicode.ToUpper gives S
\* and I); unicode.ToLower leaves them as they are.
LongS == "U+017F"
DotlessI == "U+0131"

IsLower(c) == c \in Range(LowerLetters)
IsUpper(c) == c \in Range(UpperLetters)
IsLetter(c) == IsLower(c) \/ IsUpper(c) \/ c \in {LongS, DotlessI}
\* \d of regexp, and the digits strconv.Atoi accepts
IsDigit(c) == c \in Range(Digits)
\* \s of regexp ([\t\n\f\r ]); strings.TrimSpace cuts these (and the other
\* Unicode white space, which no text of the model contains)
IsSpace(c) == c \in {" ", "\t", "\n", "\r", "\f"}

IndexIn(c, f) == CHOOSE i \in DOMAIN f : f[i] = c

LowerChar(c) == IF IsUpper(c) THEN LowerLetters[IndexIn(c, UpperLetters)] ELSE c
UpperChar(c) ==
    IF IsLower(c) THEN UpperLetters[IndexIn(c, LowerLetters)]
    ELSE IF c = LongS THEN "S"
    ELSE IF c = DotlessI THEN "I"
    ELSE c

\* strings.ToLower
ToLower(s) == [i \in 1..Len(s) |-> LowerChar(s[i])]

\* strings.TrimSpace
TrimSpace(s) ==
    LET keep == {i \in 1..Len(s) : ~IsSpace(s[i])}
    IN  IF keep = {} THEN <<>>
        ELSE SubSeq(s, CHOOSE i \in keep : \A j \in keep : i <= j,
                       CHOOSE i \in keep : \A j \in keep : j <= i)

\* strings.Title: the first letter of every word in upper case
Title(s) ==
    [i \in 1..Len(s) |->
        IF i = 1 \/ ~IsLetter(s[i - 1]) THEN UpperChar(s[i]) ELSE s[i]]

\* strings.Contains
Contains(s, sub) ==
    \E i \in 1..(Len(s) + 1) :
        i + Len(sub) - 1 <= Len(s) /\ SubSeq(s, i, i + Len(sub) - 1) = sub

\* strings.Split(s, sep) for a one-character separator
RECURSIVE Split(_, _)
Split(s, sep) ==
    IF \E i \in 1..Len(s) : s[i] = sep
    THEN LET k == CHOOSE i \in 1..Len(s) :
                      s[i] = sep /\ \A j \in 1..(i - 1) : s[j] # sep
         IN  <<SubSeq(s, 1, k - 1)>> \o Split(SubSeq(s, k + 1, Len(s)), sep)
    ELSE <<s>>

DigitValue(c) == IndexIn(c, Digits) - 1

RECURSIVE DigitsValue(_)
DigitsValue(s) ==
    IF s = <<>> THEN 0
    ELSE 10 * DigitsValue(SubSeq(s, 1, Len(s) - 1)) + DigitValue(s[Len(s)])

\* strconv.Atoi: an optional sign and decimal digits, anything else is an
\* error with value 0 (texts of the model are too short to overflow an int)
Atoi(s) ==
    LET signed == s # <<>> /\ s[1] \in {"+", "-"}
        body   == IF signed THEN Tail(s) ELSE s
    IN  IF body # <<>> /\ \A i \in 1..Len(body) : IsDigit(body[i])
        THEN [value |-> IF signed /\ s[1] = "-" THEN 0 - DigitsValue(body)
                        ELSE DigitsValue(body),
              ok |-> TRUE]
        ELSE [value |-> 0, ok |-> FALSE]

\* the %d verb of fmt.Sprintf
RECURSIVE Itoa(_)
Itoa(n) ==
    IF n < 0 THEN <<"-">> \o Itoa(0 - n)
    ELSE IF n < 10 THEN <<Digits[n + 1]>>
    ELSE Itoa(n \div 10) \o <<Digits[(n % 10) + 1]>>

-----------------------------------------------------------------------------
(* The regular expressions of ParsePattern.  A position is the index of  *)
(* the next character to match; position 0 means that the match failed.  *)
(* FindStringSubmatch returns <<whole match, group 1>> or NoMatch (nil). *)

NoMatch == <<>>

DayNames == {<<"m", "o", "n", "d", "a", "y">>, <<"t", "u", "e", "s", "d", "a", "y">>, <<"w", "e", "d", "n", "e", "s", "d", "a", "y">>, <<"t", "h", "u", "r", "s", "d", "a", "y">>,
             <<"f", "r", "i", "d", "a", "y">>, <<"s", "a", "t", "u", "r", "d", "a", "y">>, <<"s", "u", "n", "d", "a", "y">>}

OrdinalWords == {<<"f", "i", "r", "s", "t">>, <<"s", "e", "c", "o", "n", "d">>, <<"t", "h", "i", "r", "d">>, <<"f", "o", "u", "r", "t", "h">>, <<"f", "i", "f", "t", "h">>}

\* (?:st|nd|rd|th)
Suffixes == {<<"s", "t">>, <<"n", "d">>, <<"r", "d">>, <<"t", "h">>}

HasAt(s, i, lit) ==
    i >= 1 /\ i + Len(lit) - 1 <= Len(s) /\ SubSeq(s, i, i + Len(lit) - 1) = lit

\* a literal
Lit(s, i, lit) == IF i > 0 /\ HasAt(s, i, lit) THEN i + Len(lit) ELSE 0

\* an alternation of literals of which at most one can match at i
AnyLit(s, i, lits) ==
    IF \E l \in lits : Lit(s, i, l) # 0
    THEN Lit(s, i, CHOOSE l \in lits : Lit(s, i, l) # 0)
    ELSE 0

RECURSIVE SkipSpaces(_, _)
SkipSpaces(s, i) ==
    IF i <= Len(s) /\ IsSpace(s[i]) THEN SkipSpaces(s, i + 1) ELSE i

\* \s+ (always followed by a letter in these expressions, so it takes
\* every space there is)
Spaces(s, i) ==
    IF i > 0 /\ i <= Len(s) /\ IsSpace(s[i]) THEN SkipSpaces(s, i) ELSE 0

RECURSIVE SkipDigits(_, _)
SkipDigits(s, i) ==
    IF i <= Len(s) /\ IsDigit(s[i]) THEN SkipDigits(s, i + 1) ELSE i

\* $ after position i
AtEnd(s, i) == i = Len(s) + 1

\* ^every\s+(monday|tuesday|wednesday|thursday|friday|saturday|sunday)$
weeklyRegex(s) ==
    LET i    == Spaces(s, Lit(s, 1, <<"e", "v", "e", "r", "y">>))
        rest == IF i > 0 THEN SubSeq(s, i, Len(s)) ELSE <<>>
    IN  IF i > 0 /\ rest \in DayNames THEN <<s, rest>> ELSE NoMatch

\* of\s+(?:the\s+)?month$ from position i
OfMonthTail(s, i) ==
    LET j == Spaces(s, Lit(s, i, <<"o", "f">>))
    IN  \/ AtEnd(s, Lit(s, Spaces(s, Lit(s, j, <<"t", "h", "e">>)), <<"m", "o", "n", "t", "h">>))
        \/ AtEnd(s, Lit(s, j, <<"m", "o", "n", "t", "h">>))

\* ^(?:(\d+)(?:st|nd|rd|th)|first|second|third|fourth|fifth)\s+weekday\s+of\s+(?:the\s+)?month$
nthWeekdayRegex(s) ==
    LET d     == SkipDigits(s, 1)
        num   == IF d > 1 THEN AnyLit(s, d, Suffixes) ELSE 0
        word  == AnyLit(s, 1, OrdinalWords)
        head  == IF num # 0 THEN num ELSE word
        group == IF num # 0 THEN SubSeq(s, 1, d - 1) ELSE <<>>
        j     == Spaces(s, Lit(s, Spaces(s, head), <<"w", "e", "e", "k", "d", "a", "y">>))
    IN  IF OfMonthTail(s, j) THEN <<s, group>> ELSE NoMatch

\* ^last\s+weekend\s+of\s+(?:the\s+)?month$
lastWeekendRegex(s) ==
    OfMonthTail(s, Spaces(s, Lit(s, Spaces(s, Lit(s, 1, <<"l", "a", "s", "t">>)), <<"w", "e", "e", "k", "e", "n", "d">>)))

\* monthlyRegex without the $ at its end: the expression may stop before
\* the end of the input
monthlyRegex_Unanchored(s) ==
    LET starts == {1} \cup ({Spaces(s, Lit(s, 1, <<"o", "n">>))} \ {0})
        IsNum(b, e) == e - b \in {1, 2} /\ e <= Len(s) + 1
                          /\ \A k \in b..(e - 1) : IsDigit(s[k])
        found == {be \in starts \X (1..(Len(s) + 1)) : IsNum(be[1], be[2])}
    IN  IF found = {} THEN NoMatch
        ELSE LET be == CHOOSE x \in found : \A y \in found : y[2] <= x[2]
             IN  <<s, SubSeq(s, be[1], be[2] - 1)>>

\* ^(?:on\s+)?(\d{1,2})(?:st|nd|rd|th)?(?:\s+of\s+(?:each|every)\s+month)?$
monthlyRegex(s) ==
    LET starts == {1} \cup ({Spaces(s, Lit(s, 1, <<"o", "n">>))} \ {0})
        IsNum(b, e) == e - b \in {1, 2} /\ e <= Len(s) + 1
                          /\ \A k \in b..(e - 1) : IsDigit(s[k])
        SufEnds(e) == {e} \cup ({AnyLit(s, e, Suffixes)} \ {0})
        TailEnds(f) ==
            {f} \cup ({Lit(s, Spaces(s, AnyLit(s, Spaces(s, Lit(s, Spaces(s, f), <<"o", "f">>)),
                                            {<<"e", "a", "c", "h">>, <<"e", "v", "e", "r", "y">>})), <<"m", "o", "n", "t", "h">>)} \ {0})
        found == {be \in starts \X (1..(Len(s) + 1)) :
                     /\ IsNum(be[1], be[2])
                     /\ \E f \in SufEnds(be[2]) : \E g \in TailEnds(f) : AtEnd(s, g)}
    IN  IF found = {} THEN NoMatch
        ELSE LET be == CHOOSE x \in found : \A y \in found : y[2] <= x[2]
             IN  <<s, SubSeq(s, be[1], be[2] - 1)>>

-----------------------------------------------------------------------------
(* Pattern values *)

PatternNone == <<>>

weeklyTag == <<"w", "e", "e", "k", "l", "y">>
monthlyTag == <<"m", "o", "n", "t", "h", "l", "y">>
nthWeekdayTag == <<"m", "o", "n", "t", "h", "l", "y", "-", "n", "t", "h", "-", "w", "e", "e", "k", "d", "a", "y">>
lastWeekendPattern == <<"m", "o", "n", "t", "h", "l", "y", "-", "l", "a", "s", "t", "-", "w", "e", "e", "k", "e", "n", "d">>

\* fmt.Sprintf("weekly:%s", dayName)
WeeklyPattern(dayName) == weeklyTag \o <<":">> \o dayName
\* fmt.Sprintf("monthly:%d", dayNum)
MonthlyPattern(dayNum) == monthlyTag \o <<":">> \o Itoa(dayNum)
\* fmt.Sprintf("monthly-nth-weekday:%d", n)
NthWeekdayPattern(n) == nthWeekdayTag \o <<":">> \o Itoa(n)

\* the word forms of the ordinal (the switch of ParsePattern)
OrdinalWordValue(s) ==
    IF Contains(s, <<"f", "i", "r", "s", "t">>) THEN 1
    ELSE IF Contains(s, <<"s", "e", "c", "o", "n", "d">>) THEN 2
    ELSE IF Contains(s, <<"t", "h", "i", "r", "d">>) THEN 3
    ELSE IF Contains(s, <<"f", "o", "u", "r", "t", "h">>) THEN 4
    ELSE IF Contains(s, <<"f", "i", "f", "t", "h">>) THEN 5
    ELSE 0

\* NthWeekdayResult with the upper limit of the days of a week
NthWeekdayResult_LimitSeven(s, group) ==
    LET n == IF group # <<>> THEN Atoi(group).value ELSE OrdinalWordValue(s)
    IN  IF n < 1 \/ n > 7 THEN [pattern |-> <<>>, err |-> ErrInvalidPattern]
        ELSE [pattern |-> NthWeekdayPattern(n), err |-> Nil]

\* the branch taken when nthWeekdayRegex matches: group is its group 1
NthWeekdayResult(s, group) ==
    LET n == IF group # <<>> THEN Atoi(group).value ELSE OrdinalWordValue(s)
    IN  IF n < 1 \/ n > 5 THEN [pattern |-> <<>>, err |-> ErrInvalidPattern]
        ELSE [pattern |-> NthWeekdayPattern(n), err |-> Nil]

\* the branch taken when monthlyRegex matches: group is its group 1
MonthlyDayResult(group) ==
    LET dayNum == Atoi(group)
    IN  IF ~dayNum.ok \/ dayNum.value < 1 \/ dayNum.value > 31
        THEN [pattern |-> <<>>, err |-> ErrInvalidDay]
        ELSE [pattern |-> MonthlyPattern(dayNum.value), err |-> Nil]

\* the alternatives of ParsePattern, tried in order on the normalised input
MatchPattern(s) ==
    LET w  == weeklyRegex(s)
        nw == nthWeekdayRegex(s)
        mo == monthlyRegex(s)
    IN  IF w # NoMatch THEN [pattern |-> WeeklyPattern(w[2]), err |-> Nil]
        ELSE IF nw # NoMatch THEN NthWeekdayResult(s, nw[2])
        ELSE IF lastWeekendRegex(s) THEN [pattern |-> lastWeekendPattern, err |-> Nil]
        ELSE IF mo # NoMatch THEN MonthlyDayResult(mo[2])
        ELSE [pattern |-> <<>>, err |-> ErrInvalidPattern]

\* ParsePattern without strings.ToLower
ParsePattern_CaseSensitive(text) ==
    IF text = <<>> THEN [pattern |-> PatternNone, err |-> Nil]
    ELSE MatchPattern(TrimSpace(text))

\* ParsePattern without strings.TrimSpace
ParsePattern_Untrimmed(text) ==
    IF text = <<>> THEN [pattern |-> PatternNone, err |-> Nil]
    ELSE MatchPattern(ToLower(text))

ParsePattern(text) ==
    IF text = <<>> THEN [pattern |-> PatternNone, err |-> Nil]
    ELSE MatchPattern(ToLower(TrimSpace(text)))

\* getOrdinal that writes "th" after every number
getOrdinal_AlwaysTh(num) == num \o <<"t", "h">>

getOrdinal(num) ==
    IF num = <<"1">> THEN <<"1", "s", "t">>
    ELSE IF num = <<"2">> THEN <<"2", "n", "d">>
    ELSE IF num = <<"3">> THEN <<"3", "r", "d">>
    ELSE IF num = <<"4">> THEN <<"4", "t", "h">>
    ELSE IF num = <<"5">> THEN <<"5", "t", "h">>
    ELSE num \o <<"t", "h">>

\* Pattern.String
String(p) ==
    IF p = PatternNone THEN <<"n", "o", "n", "e">>
    ELSE IF p = lastWeekendPattern THEN <<"L", "a", "s", "t", " ", "w", "e", "e", "k", "e", "n", "d", " ", "o", "f", " ", "e", "a", "c", "h", " ", "m", "o", "n", "t", "h">>
    ELSE LET parts == Split(p, ":")
         IN  IF Len(parts) # 2 THEN p
             ELSE IF parts[1] = weeklyTag THEN <<"E", "v", "e", "r", "y", " ">> \o Title(parts[2])
             ELSE IF parts[1] = monthlyTag
                  THEN <<"D", "a", "y", " ">> \o parts[2] \o <<" ", "o", "f", " ", "e", "a", "c", "h", " ", "m", "o", "n", "t", "h">>
             ELSE IF parts[1] = nthWeekdayTag
                  THEN getOrdinal(parts[2]) \o <<" ", "w", "e", "e", "k", "d", "a", "y", " ", "o", "f", " ", "e", "a", "c", "h", " ", "m", "o", "n", "t", "h">>
             ELSE p

\* IsRecurring that says yes to every pattern
IsRecurring_Always(p) == TRUE

\* Pattern.IsRecurring
IsRecurring(p) == p # PatternNone

-----------------------------------------------------------------------------
(* The occurrence calculators.  Each returns [time, err]. *)

Failure(e) == [time |-> ZeroTime, err |-> e]
Success(t) == [time |-> t, err |-> Nil]

\* parseWeekday that takes an unknown name for Sunday (the zero Weekday)
parseWeekday_UnknownIsSunday(dayName) ==
    LET name == ToLower(dayName)
    IN  IF name = <<"m", "o", "n", "d", "a", "y">> THEN Monday
        ELSE IF name = <<"t", "u", "e", "s", "d", "a", "y">> THEN 2
        ELSE IF name = <<"w", "e", "d", "n", "e", "s", "d", "a", "y">> THEN 3
        ELSE IF name = <<"t", "h", "u", "r", "s", "d", "a", "y">> THEN 4
        ELSE IF name = <<"f", "r", "i", "d", "a", "y">> THEN Friday
        ELSE IF name = <<"s", "a", "t", "u", "r", "d", "a", "y">> THEN Saturday
        ELSE Sunday

\* parseWeekday: the time.Weekday of a day name, -1 when there is none
parseWeekday(dayName) ==
    LET name == ToLower(dayName)
    IN  IF name = <<"s", "u", "n", "d", "a", "y">> THEN Sunday
        ELSE IF name = <<"m", "o", "n", "d", "a", "y">> THEN Monday
        ELSE IF name = <<"t", "u", "e", "s", "d", "a", "y">> THEN 2
        ELSE IF name = <<"w", "e", "d", "n", "e", "s", "d", "a", "y">> THEN 3
        ELSE IF name = <<"t", "h", "u", "r", "s", "d", "a", "y">> THEN 4
        ELSE IF name = <<"f", "r", "i", "d", "a", "y">> THEN Friday
        ELSE IF name = <<"s", "a", "t", "u", "r", "d", "a", "y">> THEN Saturday
        ELSE -1

\* isWeekday that leaves Monday out
isWeekday_FromTuesday(weekday) == weekday > Monday /\ weekday <= Friday

\* isWeekday with the upper limit off by one
isWeekday_ThroughSaturday(weekday) == weekday >= Monday /\ weekday <= Saturday

isWeekday(weekday) == weekday >= Monday /\ weekday <= Friday

\* isWeekend that forgets Saturday
isWeekend_SundayOnly(weekday) == weekday = Sunday

isWeekend(weekday) == weekday = Saturday \/ weekday = Sunday

\* for current.Weekday() != targetWeekday { current = current.AddDate(0, 0, 1) }
RECURSIVE WeeklyScan(_, _)
WeeklyScan(current, targetWeekday) ==
    IF Weekday(current) # targetWeekday
    THEN WeeklyScan(AddDate(current, 0, 0, 1), targetWeekday)
    ELSE current

\* nextWeeklyOccurrence whose scan starts on the reference day itself
nextWeeklyOccurrence_FromReference(ref, dayName) ==
    LET targetWeekday == parseWeekday(dayName)
    IN  IF targetWeekday = -1 THEN Failure(ErrInvalidPattern)
        ELSE LET current == WeeklyScan(ref, targetWeekday)
             IN  Success(Date(current.year, current.month, current.day, 0, 0, 0))

\* nextWeeklyOccurrence that returns the day it found as it is, with the
\* time of day of the reference
nextWeeklyOccurrence_KeepsTime(ref, dayName) ==
    LET targetWeekday == parseWeekday(dayName)
    IN  IF targetWeekday = -1 THEN Failure(ErrInvalidPattern)
        ELSE Success(WeeklyScan(AddDate(ref, 0, 0, 1), targetWeekday))

nextWeeklyOccurrence(ref, dayName) ==
    LET targetWeekday == parseWeekday(dayName)
    IN  IF targetWeekday = -1 THEN Failure(ErrInvalidPattern)
        ELSE LET current == WeeklyScan(AddDate(ref, 0, 0, 1), targetWeekday)
             IN  Success(Date(current.year, current.month, current.day, 0, 0, 0))

\* for current.Day() != dayNum { current = first of current's month, minus one day }
RECURSIVE MonthlyStepBack(_, _)
MonthlyStepBack(current, dayNum) ==
    IF current.day # dayNum
    THEN MonthlyStepBack(
             AddDate(Date(current.year, current.month, 1, 0, 0, 0), 0, 0, -1), dayNum)
    ELSE current

\* nextMonthlyOccurrence that moves to the next month only when the day of
\* this month is before the reference (current.Before(after))
nextMonthlyOccurrence_RollsWhenBefore(ref, dayNum) ==
    IF dayNum < 1 \/ dayNum > 31 THEN Failure(ErrInvalidDay)
    ELSE LET first  == Date(ref.year, ref.month, dayNum, 0, 0, 0)
             rolled == IF After(ref, first) THEN AddDate(first, 0, 1, 0) ELSE first
         IN  Success(MonthlyStepBack(rolled, dayNum))

nextMonthlyOccurrence(ref, dayNum) ==
    IF dayNum < 1 \/ dayNum > 31 THEN Failure(ErrInvalidDay)
    ELSE LET first  == Date(ref.year, ref.month, dayNum, 0, 0, 0)
             rolled == IF ~After(first, ref) THEN AddDate(first, 0, 1, 0) ELSE first
         IN  Success(MonthlyStepBack(rolled, dayNum))

\* the first loop of nextNthWeekdayOccurrence: the scan of the reference
\* month; "found" is the return inside the loop, otherwise the loop was
\* left by the break or by running out of the month
RECURSIVE NthScanThisMonth(_, _, _, _, _)
NthScanThisMonth(current, month, weekdayCount, n, ref) ==
    IF current.month # month THEN [found |-> FALSE, time |-> current]
    ELSE IF isWeekday(Weekday(current)) /\ weekdayCount + 1 = n
         THEN [found |-> After(current, ref), time |-> current]
    ELSE NthScanThisMonth(AddDate(current, 0, 0, 1), month,
                          IF isWeekday(Weekday(current)) THEN weekdayCount + 1
                          ELSE weekdayCount,
                          n, ref)

\* the second loop: for { ... } over the following month
RECURSIVE NthScanNextMonth(_, _, _)
NthScanNextMonth(current, weekdayCount, n) ==
    IF isWeekday(Weekday(current)) /\ weekdayCount + 1 = n THEN current
    ELSE NthScanNextMonth(AddDate(current, 0, 0, 1),
                          IF isWeekday(Weekday(current)) THEN weekdayCount + 1
                          ELSE weekdayCount,
                          n)

nextNthWeekdayOccurrence(ref, n) ==
    IF n < 1 \/ n > 5 THEN Failure(ErrInvalidPattern)
    ELSE LET firstOfMonth == Date(ref.year, ref.month, 1, 0, 0, 0)
             here == NthScanThisMonth(firstOfMonth, ref.month, 0, n, ref)
         IN  IF here.found THEN Success(here.time)
             ELSE Success(NthScanNextMonth(AddDate(firstOfMonth, 0, 1, 0), 0, n))

\* for !isWeekend(current.Weekday()) { current = current.AddDate(0, 0, -1) }
RECURSIVE WeekendScanBack(_)
WeekendScanBack(current) ==
    IF ~isWeekend(Weekday(current)) THEN WeekendScanBack(AddDate(current, 0, 0, -1))
    ELSE current

\* the last Saturday or Sunday of a month (both halves of nextLastWeekendOccurrence)
LastWeekendOf(year, month) ==
    LET firstOfNextMonth == AddDate(Date(year, month, 1, 0, 0, 0), 0, 1, 0)
        lastOfMonth      == AddDate(firstOfNextMonth, 0, 0, -1)
    IN  WeekendScanBack(lastOfMonth)

\* nextLastWeekendOccurrence that keeps this month's weekend unless the
\* reference is past it (!current.Before(after))
nextLastWeekendOccurrence_UnlessPast(ref) ==
    LET current == LastWeekendOf(ref.year, ref.month)
    IN  IF ~After(ref, current) THEN Success(current)
        ELSE LET month == IF ref.month + 1 > 12 THEN 1 ELSE ref.month + 1
                 year  == IF ref.month + 1 > 12 THEN ref.year + 1 ELSE ref.year
             IN  Success(LastWeekendOf(year, month))

nextLastWeekendOccurrence(ref) ==
    LET current == LastWeekendOf(ref.year, ref.month)
    IN  IF After(current, ref) THEN Success(current)
        ELSE LET month == IF ref.month + 1 > 12 THEN 1 ELSE ref.month + 1
                 year  == IF ref.month + 1 > 12 THEN ref.year + 1 ELSE ref.year
             IN  Success(LastWeekendOf(year, month))

\* NextOccurrence without the guard for the none pattern: the zero time
\* and no error
NextOccurrence_NoneGivesZeroTime(p, ref) ==
    IF p = PatternNone THEN Success(ZeroTime)
    ELSE IF p = lastWeekendPattern THEN nextLastWeekendOccurrence(ref)
    ELSE LET parts == Split(p, ":")
         IN  IF Len(parts) # 2 THEN Failure(ErrInvalidPattern)
             ELSE IF parts[1] = weeklyTag THEN nextWeeklyOccurrence(ref, parts[2])
             ELSE IF parts[1] = monthlyTag
                  THEN LET dayNum == Atoi(parts[2])
                       IN  IF ~dayNum.ok THEN Failure(ErrInvalidPattern)
                           ELSE nextMonthlyOccurrence(ref, dayNum.value)
             ELSE IF parts[1] = nthWeekdayTag
                  THEN LET n == Atoi(parts[2])
                       IN  IF ~n.ok THEN Failure(ErrInvalidPattern)
                           ELSE nextNthWeekdayOccurrence(ref, n.value)
             ELSE Failure(ErrInvalidPattern)

\* Pattern.NextOccurrence
NextOccurrence(p, ref) ==
    IF p = PatternNone THEN Failure(ErrInvalidPattern)
    ELSE IF p = lastWeekendPattern THEN nextLastWeekendOccurrence(ref)
    ELSE LET parts == Split(p, ":")
         IN  IF Len(parts) # 2 THEN Failure(ErrInvalidPattern)
             ELSE IF parts[1] = weeklyTag THEN nextWeeklyOccurrence(ref, parts[2])
             ELSE IF parts[1] = monthlyTag
                  THEN LET dayNum == Atoi(parts[2])
                       IN  IF ~dayNum.ok THEN Failure(ErrInvalidPattern)
                           ELSE nextMonthlyOccurrence(ref, dayNum.value)
             ELSE IF parts[1] = nthWeekdayTag
                  THEN LET n == Atoi(parts[2])
                       IN  IF ~n.ok THEN Failure(ErrInvalidPattern)
                           ELSE nextNthWeekdayOccurrence(ref, n.value)
             ELSE Failure(ErrInvalidPattern)

-----------------------------------------------------------------------------
(* Values of the variables before anything was called or stored *)

NoCall == [text |-> <<>>, changed |-> {}, pattern |-> PatternNone, err |-> Nil]

NoSteps == [weekly |-> 0, monthly |-> 0, nthWeekday |-> 0, weekend |-> 0, rolled |-> FALSE]

\* the database after initSchema: three empty tables
EmptyStore == [tasks |-> <<>>, tags |-> <<>>, taskTags |-> {}]

\* storage.TimeFilter
FilterAll == 0
FilterPast == 1
FilterCurrent == 2
FilterFuture == 3

\* no command run yet; a command is recorded with its arguments, the
\* reading of the clock, its error and the tasks it listed
NoCommand == [name |-> "none", id |-> <<>>, title |-> <<>>, details |-> <<>>,
              recur |-> <<>>, tagNames |-> <<>>, date |-> <<>>, now |-> ZeroTime,
              filter |-> FilterAll, listed |-> <<>>, err |-> Nil]

-----------------------------------------------------------------------------
(* The loops of the calculators, counted: how often each loop of a        *)
(* NextOccurrence call runs its body, and whether the call moved on to    *)
(* the following month                                                    *)

\* for current.Weekday() != targetWeekday { ... }
RECURSIVE WeeklyScanSteps(_, _)
WeeklyScanSteps(current, targetWeekday) ==
    IF Weekday(current) # targetWeekday
    THEN 1 + WeeklyScanSteps(AddDate(current, 0, 0, 1), targetWeekday)
    ELSE 0

\* for current.Day() != dayNum { ... }
RECURSIVE MonthlyStepBackSteps(_, _)
MonthlyStepBackSteps(current, dayNum) ==
    IF current.day # dayNum
    THEN 1 + MonthlyStepBackSteps(
                 AddDate(Date(current.year, current.month, 1, 0, 0, 0), 0, 0, -1), dayNum)
    ELSE 0

\* for current.Month() == month { ... current = current.AddDate(0, 0, 1) }
RECURSIVE NthScanThisMonthSteps(_, _, _, _)
NthScanThisMonthSteps(current, month, weekdayCount, n) ==
    IF current.month # month THEN 0
    ELSE IF isWeekday(Weekday(current)) /\ weekdayCount + 1 = n THEN 0
    ELSE 1 + NthScanThisMonthSteps(AddDate(current, 0, 0, 1), month,
                                   IF isWeekday(Weekday(current)) THEN weekdayCount + 1
                                   ELSE weekdayCount,
                                   n)

\* for { ... current = current.AddDate(0, 0, 1) }
RECURSIVE NthScanNextMonthSteps(_, _, _)
NthScanNextMonthSteps(current, weekdayCount, n) ==
    IF isWeekday(Weekday(current)) /\ weekdayCount + 1 = n THEN 0
    ELSE 1 + NthScanNextMonthSteps(AddDate(current, 0, 0, 1),
                                   IF isWeekday(Weekday(current)) THEN weekdayCount + 1
                                   ELSE weekdayCount,
                                   n)

\* for !isWeekend(current.Weekday()) { ... }
RECURSIVE WeekendScanBackSteps(_)
WeekendScanBackSteps(current) ==
    IF ~isWeekend(Weekday(current))
    THEN 1 + WeekendScanBackSteps(AddDate(current, 0, 0, -1))
    ELSE 0

\* the counts of one NextOccurrence call, along the branches of
\* NextOccurrence and of the calculator it calls
LoopSteps(p, ref) ==
    LET parts == Split(p, ":")
        lastOf(year, month) ==
            AddDate(AddDate(Date(year, month, 1, 0, 0, 0), 0, 1, 0), 0, 0, -1)
    IN  IF p = lastWeekendPattern
        THEN LET rolled == ~After(LastWeekendOf(ref.year, ref.month), ref)
                 month  == IF ref.month + 1 > 12 THEN 1 ELSE ref.month + 1
                 year   == IF ref.month + 1 > 12 THEN ref.year + 1 ELSE ref.year
             IN  [NoSteps EXCEPT
                     !.weekend = WeekendScanBackSteps(lastOf(ref.year, ref.month))
                                     + (IF rolled THEN WeekendScanBackSteps(lastOf(year, month))
                                        ELSE 0),
                     !.rolled = rolled]
        ELSE IF p = PatternNone \/ Len(parts) # 2 THEN NoSteps
        ELSE IF parts[1] = weeklyTag /\ parseWeekday(parts[2]) # -1
             THEN [NoSteps EXCEPT
                      !.weekly = WeeklyScanSteps(AddDate(ref, 0, 0, 1), parseWeekday(parts[2]))]
        ELSE IF parts[1] = monthlyTag /\ Atoi(parts[2]).ok /\ Atoi(parts[2]).value \in 1..31
             THEN LET dayNum == Atoi(parts[2]).value
                      first  == Date(ref.year, ref.month, dayNum, 0, 0, 0)
                      rolled == ~After(first, ref)
                  IN  [NoSteps EXCEPT
                          !.monthly = MonthlyStepBackSteps(
                                          IF rolled THEN AddDate(first, 0, 1, 0) ELSE first,
                                          dayNum),
                          !.rolled = rolled]
        ELSE IF parts[1] = nthWeekdayTag /\ Atoi(parts[2]).ok /\ Atoi(parts[2]).value \in 1..5
             THEN LET n == Atoi(parts[2]).value
                      firstOfMonth == Date(ref.year, ref.month, 1, 0, 0, 0)
                      rolled == ~NthScanThisMonth(firstOfMonth, ref.month, 0, n, ref).found
                  IN  [NoSteps EXCEPT
                          !.nthWeekday = NthScanThisMonthSteps(firstOfMonth, ref.month, 0, n)
                                             + (IF rolled
                                                THEN NthScanNextMonthSteps(
                                                         AddDate(firstOfMonth, 0, 1, 0), 0, n)
                                                ELSE 0),
                          !.rolled = rolled]
        ELSE NoSteps

-----------------------------------------------------------------------------
(* Inputs *)

\* hour, minute and second of the reference instants
TimesOfDay == {<<0, 0, 0>>, <<23, 59, 59>>}

\* every instant of FirstYear .. LastYear at one of these times of day
RefInstants ==
    {Date(ymd[1], ymd[2], ymd[3], t[1], t[2], t[3]) :
        ymd \in {x \in (FirstYear..LastYear) \X (1..12) \X (1..31) :
                    x[3] <= DaysIn(x[1], x[2])},
        t \in TimesOfDay}

\* an input text is pre, num, suf and tail in a row; family names the
\* alternative of the grammar the caller has in mind
Form(family, pre, num, suf, tail) ==
    [family |-> family, pre |-> pre, num |-> num, suf |-> suf, tail |-> tail]

TextOf(f) == f.pre \o f.num \o f.suf \o f.tail

\* the numbers as users write them, some with leading zeros
NumberTexts ==
    {Itoa(n) : n \in 0..MaxNumber} \cup {<<"0", "0">>, <<"0", "7">>, <<"0", "3", "1">>, <<"0", "0", "5">>}

WeeklyForms ==
    {Form("weekly", pre, day, <<>>, tail) :
        pre \in {<<"e", "v", "e", "r", "y", " ">>, <<"E", "v", "e", "r", "y", " ">>, <<" ", "E", "V", "E", "R", "Y", " ", " ">>},
        day \in DayNames \cup {<<"T", "u", "e", "s", "d", "a", "y">>, <<"f", "u", "n", "d", "a", "y">>, <<"m", "o", "n">>},
        tail \in {<<>>, <<" ">>}}

MonthlyDayForms ==
    {Form("monthly", pre, num, suf, tail) :
        pre \in {<<>>, <<"o", "n", " ">>, <<"O", "n", " ", " ">>},
        num \in NumberTexts,
        suf \in Suffixes \cup {<<>>},
        tail \in {<<>>, <<" ", "o", "f", " ", "e", "a", "c", "h", " ", "m", "o", "n", "t", "h">>, <<" ", "o", "f", " ", "e", "v", "e", "r", "y", " ", "m", "o", "n", "t", "h">>, <<" ", "O", "f", " ", " ", "E", "a", "c", "h", " ", "M", "o", "n", "t", "h", " ">>}}

NthWeekdayForms ==
    {Form("nth-weekday", <<>>, num, suf, tail) :
        num \in NumberTexts,
        suf \in Suffixes,
        tail \in {<<" ", "w", "e", "e", "k", "d", "a", "y", " ", "o", "f", " ", "t", "h", "e", " ", "m", "o", "n", "t", "h">>, <<" ", "w", "e", "e", "k", "d", "a", "y", " ", "o", "f", " ", "m", "o", "n", "t", "h">>, <<" ", " ", "W", "e", "e", "k", "d", "a", "y", " ", "o", "f", " ", " ", "T", "h", "e", " ", "m", "o", "n", "t", "h">>}}
    \cup
    {Form("nth-weekday-word", <<>>, word, <<>>, tail) :
        word \in OrdinalWords \cup {<<"F", "i", "r", "s", "t">>},
        tail \in {<<" ", "w", "e", "e", "k", "d", "a", "y", " ", "o", "f", " ", "t", "h", "e", " ", "m", "o", "n", "t", "h">>, <<" ", "w", "e", "e", "k", "d", "a", "y", " ", "o", "f", " ", "m", "o", "n", "t", "h">>, <<" ", " ", "W", "e", "e", "k", "d", "a", "y", " ", "o", "f", " ", " ", "T", "h", "e", " ", "m", "o", "n", "t", "h">>}}

LastWeekendForms ==
    {Form("last-weekend", <<>>, <<>>, <<>>, tail) :
        tail \in {<<"l", "a", "s", "t", " ", "w", "e", "e", "k", "e", "n", "d", " ", "o", "f", " ", "t", "h", "e", " ", "m", "o", "n", "t", "h">>, <<"l", "a", "s", "t", " ", "w", "e", "e", "k", "e", "n", "d", " ", "o", "f", " ", "m", "o", "n", "t", "h">>,
                  <<"L", "a", "s", "t", " ", " ", "W", "e", "e", "k", "e", "n", "d", " ", "o", "f", " ", "t", "h", "e", " ", "M", "o", "n", "t", "h">>}}

\* texts that are none of the above: the empty text, and texts no
\* alternative of the grammar describes
EmptyForm == Form("empty", <<>>, <<>>, <<>>, <<>>)

OtherForms ==
    {Form("other", <<>>, <<>>, <<>>, text) :
        text \in {<<"w", "h", "e", "n", "e", "v", "e", "r", " ", "I", " ", "f", "e", "e", "l", " ", "l", "i", "k", "e", " ", "i", "t">>, <<"e", "v", "e", "r", "y">>, <<"e", "v", "e", "r", "y", " ", "d", "a", "y">>, <<"m", "o", "n", "d", "a", "y">>,
                  <<"n", "o", "n", "e">>, <<"w", "e", "e", "k", "d", "a", "y", " ", "o", "f", " ", "t", "h", "e", " ", "m", "o", "n", "t", "h">>, <<"s", "i", "x", "t", "h", " ", "w", "e", "e", "k", "d", "a", "y", " ", "o", "f", " ", "t", "h", "e", " ", "m", "o", "n", "t", "h">>,
                  <<"1", " ", "w", "e", "e", "k", "d", "a", "y", " ", "o", "f", " ", "t", "h", "e", " ", "m", "o", "n", "t", "h">>, <<"l", "a", "s", "t", " ", "w", "e", "e", "k", "e", "n", "d">>, <<"l", "a", "s", "t", " ", "w", "e", "e", "k", "d", "a", "y", " ", "o", "f", " ", "t", "h", "e", " ", "m", "o", "n", "t", "h">>,
                  <<"t", "h", "e", " ", "1", "5", "t", "h">>, <<"1", "5", "t", "h", " ", "o", "f", " ", "t", "h", "e", " ", "m", "o", "n", "t", "h">>, <<"1", "5", "t", "h", " ", "o", "f", " ", "m", "o", "n", "t", "h">>, <<" ", " ", " ">>, <<" ", "\t", "\n">>, <<"o", "n">>, <<"t", "h">>, <<"-", "1">>, <<"1", ".", "5">>,
                  <<"e", "v", "e", "r", "y", " ", "m", "o", "n", "d", "a", "y", " ", "a", "n", "d", " ", "f", "r", "i", "d", "a", "y">>, <<"3", "r", "d", " ", "o", "f", " ", "e", "a", "c", "h", " ", "y", "e", "a", "r">>, <<"x">>,
                  <<"e", "v", "e", "r", "y", " ", LongS, "u", "n", "d", "a", "y">>, <<"e", "v", "e", "r", "y", " ", "f", "r", DotlessI, "d", "a", "y">>,
                  <<"1", LongS, "t">>}}

InputForms ==
    WeeklyForms \cup MonthlyDayForms \cup NthWeekdayForms \cup LastWeekendForms
        \cup OtherForms \cup {EmptyForm}

\* the other case of a letter
SwapCase(c) == IF IsUpper(c) THEN LowerChar(c) ELSE UpperChar(c)

\* white space put before and after a text
Paddings ==
    {<<<<" ">>, <<>>>>, <<<<>>, <<" ">>>>, <<<<"\t", " ">>, <<" ", "\n">>>>, <<<<"\r">>, <<"\f", " ", " ">>>>}

\* the ways a text is spelled again, as [text, changed]: the letters at
\* the positions "changed" are put in their other case (all letters, the
\* upper-case ones, the lower-case ones, every second one, the first, the
\* last, none), or white space is put around the text, or both
Respellings(x) ==
    LET letters == {i \in 1..Len(x) : IsLetter(x[i])}
        ChangeCaseAt(positions) ==
            [i \in 1..Len(x) |-> IF i \in positions THEN SwapCase(x[i]) ELSE x[i]]
        casePositions ==
            {letters,
             {i \in letters : IsUpper(x[i])},
             {i \in letters : ~IsUpper(x[i])},
             {i \in letters : i % 2 = 1},
             {i \in letters : \A j \in letters : i <= j},
             {i \in letters : \A j \in letters : j <= i},
             {}}
    IN  {[text |-> ChangeCaseAt(p), changed |-> p] : p \in casePositions}
            \cup {[text |-> pad[1] \o x \o pad[2], changed |-> {}] : pad \in Paddings}
            \cup {[text |-> pad[1] \o ChangeCaseAt(letters) \o pad[2],
                    changed |-> letters] : pad \in Paddings}

\* the text a pattern is asked for when a task is stored: one per pattern
ScheduleTexts ==
    {<<"e", "v", "e", "r", "y", " ">> \o day : day \in DayNames}
        \cup {Itoa(n) \o <<"t", "h", " ", "o", "f", " ", "e", "a", "c", "h", " ", "m", "o", "n", "t", "h">> : n \in 1..31}
        \cup {Itoa(n) \o <<"t", "h", " ", "w", "e", "e", "k", "d", "a", "y", " ", "o", "f", " ", "t", "h", "e", " ", "m", "o", "n", "t", "h">> : n \in 1..5}
        \cup {<<"l", "a", "s", "t", " ", "w", "e", "e", "k", "e", "n", "d", " ", "o", "f", " ", "t", "h", "e", " ", "m", "o", "n", "t", "h">>, <<>>}

\* the patterns tasks are stored with
StoredPatterns == {ParsePattern(x).pattern : x \in {t \in ScheduleTexts : ParsePattern(t).err = Nil}}

-----------------------------------------------------------------------------
(* The occurrence computation: a task stored with its pattern and date,  *)
(* for which the next occurrence is asked                                 *)

Init ==
    /\ form = EmptyForm
    /\ input = <<>>
    /\ pat \in StoredPatterns
    /\ perr = Nil
    /\ shown = <<>>
    /\ shownOf = <<>>
    /\ after \in RefInstants
    /\ result = ZeroTime
    /\ err = Nil
    /\ pc = "stored"
    /\ recurring = FALSE
    /\ again = NoCall
    /\ steps = NoSteps
    /\ tasks = <<>>
    /\ tags = <<>>
    /\ taskTags = {}
    /\ before = EmptyStore
    /\ cmd = NoCommand

\* nextDate, err := pattern.NextOccurrence(after)
CallNextOccurrence ==
    /\ pc = "stored"
    /\ LET r == NextOccurrence(pat, after)
       IN  result' = r.time /\ err' = r.err
    /\ steps' = LoopSteps(pat, after)
    /\ pc' = "returned"
    /\ UNCHANGED <<form, input, pat, perr, shown, shownOf, after, recurring, again, storeVars>>

Next == CallNextOccurrence

Spec == Init /\ [][Next]_vars

-----------------------------------------------------------------------------
(* The occurrence computation in later years: the same call, with the     *)
(* reference three years after a leap year (2027) and seven years after   *)
(* one (2103; 2100 is no leap year)                                       *)

LaterYears == {2027, 2103}

LaterInstants ==
    {Date(ymd[1], ymd[2], ymd[3], 0, 0, 0) :
        ymd \in {x \in LaterYears \X (1..12) \X (1..31) : x[3] <= DaysIn(x[1], x[2])}}

StepsInit ==
    /\ form = EmptyForm
    /\ input = <<>>
    /\ pat \in StoredPatterns
    /\ perr = Nil
    /\ shown = <<>>
    /\ shownOf = <<>>
    /\ after \in LaterInstants
    /\ result = ZeroTime
    /\ err = Nil
    /\ pc = "stored"
    /\ recurring = FALSE
    /\ again = NoCall
    /\ steps = NoSteps
    /\ tasks = <<>>
    /\ tags = <<>>
    /\ taskTags = {}
    /\ before = EmptyStore
    /\ cmd = NoCommand

StepsSpec == StepsInit /\ [][Next]_vars

-----------------------------------------------------------------------------
(* Parsing and rendering: a text is parsed, the pattern rendered, and the *)
(* rendered text parsed again                                             *)

ParseInit ==
    /\ form \in InputForms
    /\ input = TextOf(form)
    /\ pat = PatternNone
    /\ perr = Nil
    /\ shown = <<>>
    /\ shownOf = <<>>
    /\ after = ZeroTime
    /\ result = ZeroTime
    /\ err = Nil
    /\ pc = "text"
    /\ recurring = FALSE
    /\ again = NoCall
    /\ steps = NoSteps
    /\ tasks = <<>>
    /\ tags = <<>>
    /\ taskTags = {}
    /\ before = EmptyStore
    /\ cmd = NoCommand

\* pattern, err := recurrence.ParsePattern(input)
CallParsePattern ==
    /\ pc = "text"
    /\ LET r == ParsePattern(input)
       IN  pat' = r.pattern /\ perr' = r.err
    /\ pc' = "parsed"
    /\ UNCHANGED <<form, input, shown, shownOf, after, result, err, recurring, again, steps, storeVars>>

\* pattern.String()
CallString ==
    /\ pc = "parsed"
    /\ perr = Nil
    /\ shown' = String(pat)
    /\ shownOf' = pat
    /\ pc' = "shown"
    /\ UNCHANGED <<form, input, pat, perr, after, result, err, recurring, again, steps, storeVars>>

\* recurrence.ParsePattern(pattern.String())
CallParsePatternOfString ==
    /\ pc = "shown"
    /\ form' = Form("rendered", <<>>, <<>>, <<>>, shown)
    /\ input' = shown
    /\ LET r == ParsePattern(shown)
       IN  pat' = r.pattern /\ perr' = r.err
    /\ pc' = "reparsed"
    /\ UNCHANGED <<shown, shownOf, after, result, err, recurring, again, steps, storeVars>>

\* pattern.IsRecurring()
CallIsRecurring ==
    /\ pc = "parsed"
    /\ perr = Nil
    /\ recurring' = IsRecurring(pat)
    /\ pc' = "asked"
    /\ UNCHANGED <<form, input, pat, perr, shown, shownOf, after, result, err, again, steps, storeVars>>

\* recurrence.ParsePattern of the same input spelled another way
CallParsePatternAgain ==
    /\ pc = "parsed"
    /\ \E v \in Respellings(input) :
           LET r == ParsePattern(v.text)
           IN  again' = [text |-> v.text, changed |-> v.changed,
                         pattern |-> r.pattern, err |-> r.err]
    /\ pc' = "again"
    /\ UNCHANGED <<form, input, pat, perr, shown, shownOf, after, result, err, recurring, steps, storeVars>>

ParseNext ==
    \/ CallParsePattern
    \/ CallString
    \/ CallParsePatternOfString
    \/ CallIsRecurring

ParseSpec == ParseInit /\ [][ParseNext]_vars

RespellNext == CallParsePattern \/ CallParsePatternAgain

RespellSpec == ParseInit /\ [][RespellNext]_vars

-----------------------------------------------------------------------------
(* Pattern values ParsePattern never returns: a Pattern is a string, and  *)
(* NextOccurrence is called on whatever string the caller holds (the      *)
(* store converts the text of a column, recurrence.Pattern(text))         *)

MalformedKinds ==
    {"unknown-family", "no-colon", "many-colons", "unknown-weekday",
     "non-numeric", "monthly-out-of-range", "nth-out-of-range"}

MalformedForms ==
    {Form("unknown-family", <<>>, <<>>, <<>>, text) :
        text \in {<<"y", "e", "a", "r", "l", "y", ":", "1">>, <<"d", "a", "i", "l", "y", ":", "m", "o", "n", "d", "a", "y">>, <<"W", "e", "e", "k", "l", "y", ":", "m", "o", "n", "d", "a", "y">>, <<":">>, <<"m", "o", "n", "t", "h", "l", "y", "-", "l", "a", "s", "t", "-", "w", "e", "e", "k", "e", "n", "d", ":", "1">>, <<"m", "o", "n", "t", "h", "l", "y", "-", "n", "t", "h", ":", "2">>}}
    \cup {Form("no-colon", <<>>, <<>>, <<>>, text) :
        text \in {<<"w", "e", "e", "k", "l", "y">>, <<"m", "o", "n", "d", "a", "y">>, <<"m", "o", "n", "t", "h", "l", "y">>, <<"1", "5">>, <<" ">>, <<"m", "o", "n", "t", "h", "l", "y", "-", "l", "a", "s", "t", "-", "w", "e", "e", "k", "e", "n", "d", " ">>, <<"e", "v", "e", "r", "y", " ", "m", "o", "n", "d", "a", "y">>}}
    \cup {Form("many-colons", <<>>, <<>>, <<>>, text) :
        text \in {<<"w", "e", "e", "k", "l", "y", ":", "m", "o", "n", "d", "a", "y", ":">>, <<"m", "o", "n", "t", "h", "l", "y", ":", "1", ":", "2">>, <<":", ":">>, <<"w", "e", "e", "k", "l", "y", ":", ":", "m", "o", "n", "d", "a", "y">>}}
    \cup {Form("unknown-weekday", <<>>, <<>>, <<>>, text) :
        text \in {<<"w", "e", "e", "k", "l", "y", ":", "f", "u", "n", "d", "a", "y">>, <<"w", "e", "e", "k", "l", "y", ":">>, <<"w", "e", "e", "k", "l", "y", ":", "m", "o", "n">>, <<"w", "e", "e", "k", "l", "y", ":", " ", "m", "o", "n", "d", "a", "y">>, <<"w", "e", "e", "k", "l", "y", ":", "1">>}}
    \cup {Form("non-numeric", <<>>, <<>>, <<>>, text) :
        text \in {<<"m", "o", "n", "t", "h", "l", "y", ":", "x">>, <<"m", "o", "n", "t", "h", "l", "y", ":">>, <<"m", "o", "n", "t", "h", "l", "y", ":", "1", ".", "5">>, <<"m", "o", "n", "t", "h", "l", "y", ":", "1", "s", "t">>, <<"m", "o", "n", "t", "h", "l", "y", ":", " ", "5">>, <<"m", "o", "n", "t", "h", "l", "y", ":", "-">>,
                  <<"m", "o", "n", "t", "h", "l", "y", "-", "n", "t", "h", "-", "w", "e", "e", "k", "d", "a", "y", ":", "f", "i", "r", "s", "t">>, <<"m", "o", "n", "t", "h", "l", "y", "-", "n", "t", "h", "-", "w", "e", "e", "k", "d", "a", "y", ":">>, <<"m", "o", "n", "t", "h", "l", "y", "-", "n", "t", "h", "-", "w", "e", "e", "k", "d", "a", "y", ":", "2", "n", "d">>}}
    \cup {Form("monthly-out-of-range", <<>>, <<>>, <<>>, text) :
        text \in {<<"m", "o", "n", "t", "h", "l", "y", ":", "0">>, <<"m", "o", "n", "t", "h", "l", "y", ":", "3", "2">>, <<"m", "o", "n", "t", "h", "l", "y", ":", "-", "1">>, <<"m", "o", "n", "t", "h", "l", "y", ":", "1", "0", "0">>, <<"m", "o", "n", "t", "h", "l", "y", ":", "+", "3", "2">>, <<"m", "o", "n", "t", "h", "l", "y", ":", "-", "3", "1">>}}
    \cup {Form("nth-out-of-range", <<>>, <<>>, <<>>, text) :
        text \in {<<"m", "o", "n", "t", "h", "l", "y", "-", "n", "t", "h", "-", "w", "e", "e", "k", "d", "a", "y", ":", "0">>, <<"m", "o", "n", "t", "h", "l", "y", "-", "n", "t", "h", "-", "w", "e", "e", "k", "d", "a", "y", ":", "6">>, <<"m", "o", "n", "t", "h", "l", "y", "-", "n", "t", "h", "-", "w", "e", "e", "k", "d", "a", "y", ":", "-", "1">>, <<"m", "o", "n", "t", "h", "l", "y", "-", "n", "t", "h", "-", "w", "e", "e", "k", "d", "a", "y", ":", "2", "3">>, <<"m", "o", "n", "t", "h", "l", "y", "-", "n", "t", "h", "-", "w", "e", "e", "k", "d", "a", "y", ":", "1", "0", "0">>}}

\* strings ParsePattern never returns that NextOccurrence takes all the
\* same: parseWeekday lower-cases the name, strconv.Atoi reads a sign and
\* leading zeros
UnparsedForms ==
    {Form("unparsed", <<>>, <<>>, <<>>, text) :
        text \in {<<"w", "e", "e", "k", "l", "y", ":", "M", "O", "N", "D", "A", "Y">>, <<"w", "e", "e", "k", "l", "y", ":", "F", "r", "i", "d", "a", "y">>, <<"m", "o", "n", "t", "h", "l", "y", ":", "+", "5">>, <<"m", "o", "n", "t", "h", "l", "y", ":", "0", "5">>, <<"m", "o", "n", "t", "h", "l", "y", "-", "n", "t", "h", "-", "w", "e", "e", "k", "d", "a", "y", ":", "+", "1">>, <<"m", "o", "n", "t", "h", "l", "y", "-", "n", "t", "h", "-", "w", "e", "e", "k", "d", "a", "y", ":", "0", "0", "5">>}}

RobustInstants ==
    {Date(2024, 2, 29, 0, 0, 0), Date(2025, 1, 31, 23, 59, 59), Date(2025, 6, 15, 0, 0, 0),
     Date(2025, 12, 31, 23, 59, 59)}

RobustInit ==
    \/ /\ form \in MalformedForms \cup UnparsedForms
       /\ input = <<>>
       /\ pat = TextOf(form)
       /\ perr = Nil
       /\ shown = <<>>
       /\ shownOf = <<>>
       /\ after \in RobustInstants
       /\ result = ZeroTime
       /\ err = Nil
       /\ pc = "stored"
       /\ recurring = FALSE
       /\ again = NoCall
       /\ steps = NoSteps
       /\ tasks = <<>>
       /\ tags = <<>>
       /\ taskTags = {}
       /\ before = EmptyStore
       /\ cmd = NoCommand
    \/ ParseInit

RobustNext == CallNextOccurrence \/ CallParsePattern

RobustSpec == RobustInit /\ [][RobustNext]_vars

-----------------------------------------------------------------------------
(* The store (SQLiteStorage) and the model of a task (package todo).      *)
(* A stored task is a row of the table tasks; a task in memory is the row *)
(* with its ID and its tags, a sequence of tag IDs.  The created_at and   *)
(* updated_at columns are left out: no command reads them.                *)

ErrNotFound == "task not found"
ErrTagNotFound == "tag not found"

NoTask == [id |-> 0, title |-> <<>>, details |-> <<>>, date |-> ZeroTime,
           completed |-> FALSE, skipped |-> FALSE, pattern |-> PatternNone, tags |-> <<>>]

\* the columns of a task
Row(task) ==
    [title |-> task.title, details |-> task.details, date |-> task.date,
     completed |-> task.completed, skipped |-> task.skipped, pattern |-> task.pattern]

\* ORDER BY t.name ASC: the order of two names, byte by byte
TagNameChars == <<"-", "0", "1", "2", "3", "4", "5", "6", "7", "8", "9", "_", "a", "b", "c", "d", "e", "f", "g", "h", "i", "j", "k", "l", "m", "n", "o", "p", "q", "r", "s", "t", "u", "v", "w", "x", "y", "z">>

RECURSIVE NameLess(_, _)
NameLess(a, b) ==
    IF a = <<>> THEN b # <<>>
    ELSE IF b = <<>> THEN FALSE
    ELSE IF a[1] = b[1] THEN NameLess(Tail(a), Tail(b))
    ELSE IndexIn(a[1], TagNameChars) < IndexIn(b[1], TagNameChars)

\* SQLiteStorage.GetTaskTags: the tags of a task, ordered by name
RECURSIVE TagsByName(_, _)
TagsByName(S, ids) ==
    IF ids = {} THEN <<>>
    ELSE LET first == CHOOSE i \in ids :
                          \A j \in ids \ {i} : NameLess(S.tags[i], S.tags[j])
         IN  <<first>> \o TagsByName(S, ids \ {first})

GetTaskTags(S, taskID) == TagsByName(S, {p[2] : p \in {q \in S.taskTags : q[1] = taskID}})

\* setTaskTagsInTx: the rows of task_tags of one task are replaced; a tag
\* named twice breaks the primary key and the transaction is rolled back
setTaskTagsInTx(S, taskID, tagIDs) ==
    IF \E i, j \in 1..Len(tagIDs) : i # j /\ tagIDs[i] = tagIDs[j]
    THEN [store |-> S, err |-> "failed to insert tag"]
    ELSE [store |-> [S EXCEPT !.taskTags = {q \in @ : q[1] # taskID}
                                               \cup {<<taskID, tagIDs[i]>> : i \in 1..Len(tagIDs)}],
          err |-> Nil]

\* SQLiteStorage.Create
Create(S, task) ==
    LET id == Len(S.tasks) + 1
        inserted == [S EXCEPT !.tasks = Append(@, Row(task))]
        tagged == IF Len(task.tags) > 0 THEN setTaskTagsInTx(inserted, id, task.tags)
                  ELSE [store |-> inserted, err |-> Nil]
    IN  IF tagged.err # Nil THEN [store |-> S, id |-> 0, err |-> tagged.err]
        ELSE [store |-> tagged.store, id |-> id, err |-> Nil]

\* SQLiteStorage.GetByID
GetByID(S, id) ==
    IF id \in 1..Len(S.tasks)
    THEN [task |-> [id |-> id, title |-> S.tasks[id].title, details |-> S.tasks[id].details,
                    date |-> S.tasks[id].date, completed |-> S.tasks[id].completed,
                    skipped |-> S.tasks[id].skipped, pattern |-> S.tasks[id].pattern,
                    tags |-> GetTaskTags(S, id)],
          err |-> Nil]
    ELSE [task |-> NoTask, err |-> ErrNotFound]

\* SQLiteStorage.Update
Update(S, task) ==
    IF task.id \notin 1..Len(S.tasks) THEN [store |-> S, err |-> ErrNotFound]
    ELSE LET tagged == setTaskTagsInTx([S EXCEPT !.tasks[task.id] = Row(task)],
                                       task.id, task.tags)
         IN  IF tagged.err # Nil THEN [store |-> S, err |-> tagged.err] ELSE tagged

\* SQLiteStorage.GetTagByName
GetTagByName(S, name) ==
    IF \E i \in 1..Len(S.tags) : S.tags[i] = name
    THEN [id |-> CHOOSE i \in 1..Len(S.tags) : S.tags[i] = name, err |-> Nil]
    ELSE [id |-> 0, err |-> ErrTagNotFound]

\* SQLiteStorage.CreateTag
CreateTag(S, name) ==
    IF \E i \in 1..Len(S.tags) : S.tags[i] = name
    THEN [store |-> S, id |-> 0, err |-> "tag already exists"]
    ELSE [store |-> [S EXCEPT !.tags = Append(@, name)], id |-> Len(S.tags) + 1, err |-> Nil]

\* todo.ValidateTagName
ValidateTagName(name) ==
    IF name = <<>> THEN "tag name cannot be empty"
    ELSE IF Len(name) > 50 THEN "tag name cannot exceed 50 characters"
    ELSE IF \E i \in 1..Len(name) : name[i] \notin Range(TagNameChars) THEN "tag name can only contain lowercase letters, numbers, underscores, and hyphens"
    ELSE Nil

\* todo.NormalizeTagName
NormalizeTagName(name) == ToLower(TrimSpace(name))

\* todo.NewTask
NewTask(title, details, date) ==
    IF title = <<>> THEN [task |-> NoTask, err |-> "task title cannot be empty"]
    ELSE [task |-> [NoTask EXCEPT !.title = title, !.details = details, !.date = date],
          err |-> Nil]

\* todo.NewRecurringTask; now is the reading of the clock
NewRecurringTask(title, details, pattern, now) ==
    IF title = <<>> THEN [task |-> NoTask, err |-> "task title cannot be empty"]
    ELSE LET dated(next) ==
                 IF next.err # Nil THEN [task |-> NoTask, err |-> next.err]
                 ELSE [task |-> [NoTask EXCEPT !.title = title, !.details = details,
                                               !.date = next.time, !.pattern = pattern],
                       err |-> Nil]
         IN  dated(NextOccurrence(pattern, AddDate(now, 0, 0, -1)))

\* GenerateNextInstance that leaves the tags behind
GenerateNextInstance_WithoutTags(t) ==
    IF ~IsRecurring(t.pattern) THEN [some |-> FALSE, task |-> NoTask, err |-> Nil]
    ELSE LET dated(next) ==
                 IF next.err # Nil THEN [some |-> FALSE, task |-> NoTask, err |-> next.err]
                 ELSE [some |-> TRUE,
                       task |-> [NoTask EXCEPT !.title = t.title, !.details = t.details,
                                               !.date = next.time, !.pattern = t.pattern],
                       err |-> Nil]
         IN  dated(NextOccurrence(t.pattern, t.date))

\* Task.GenerateNextInstance; "some" is false for the nil task
GenerateNextInstance(t) ==
    IF ~IsRecurring(t.pattern) THEN [some |-> FALSE, task |-> NoTask, err |-> Nil]
    ELSE LET dated(next) ==
                 IF next.err # Nil THEN [some |-> FALSE, task |-> NoTask, err |-> next.err]
                 ELSE [some |-> TRUE,
                       task |-> [NoTask EXCEPT !.title = t.title, !.details = t.details,
                                               !.date = next.time, !.pattern = t.pattern,
                                               !.tags = t.tags],
                       err |-> Nil]
         IN  dated(NextOccurrence(t.pattern, t.date))

\* time.Parse("2006-01-02", text)
ParseDate(text) ==
    IF /\ Len(text) = 10
       /\ text[5] = "-" /\ text[8] = "-"
       /\ \A i \in {1, 2, 3, 4, 6, 7, 9, 10} : IsDigit(text[i])
       /\ DigitsValue(SubSeq(text, 6, 7)) \in 1..12
       /\ DigitsValue(SubSeq(text, 9, 10))
              \in 1..DaysIn(DigitsValue(SubSeq(text, 1, 4)), DigitsValue(SubSeq(text, 6, 7)))
    THEN [time |-> Date(DigitsValue(SubSeq(text, 1, 4)), DigitsValue(SubSeq(text, 6, 7)),
                        DigitsValue(SubSeq(text, 9, 10)), 0, 0, 0),
          err |-> Nil]
    ELSE [time |-> ZeroTime, err |-> "parsing time"]

\* resolveTags: the loop over the names, from the i-th name on
RECURSIVE resolveTagsFrom(_, _, _, _)
resolveTagsFrom(S, tagNames, i, found) ==
    IF i > Len(tagNames)
    THEN IF Len(found) > 5 THEN [store |-> S, tags |-> <<>>, err |-> "task cannot have more than 5 tags"]
         ELSE [store |-> S, tags |-> found, err |-> Nil]
    ELSE LET name == NormalizeTagName(tagNames[i])
             known == GetTagByName(S, name)
         IN  IF name = <<>> THEN resolveTagsFrom(S, tagNames, i + 1, found)
             ELSE IF known.err = Nil
                  THEN resolveTagsFrom(S, tagNames, i + 1, Append(found, known.id))
             ELSE IF ValidateTagName(name) # Nil
                  THEN [store |-> S, tags |-> <<>>, err |-> "invalid tag"]
             ELSE LET created == CreateTag(S, name)
                  IN  IF created.err # Nil
                      THEN [store |-> S, tags |-> <<>>, err |-> "failed to create tag"]
                      ELSE resolveTagsFrom(created.store, tagNames, i + 1,
                                           Append(found, created.id))

\* resolveTags
resolveTags(S, tagNames) ==
    IF Len(tagNames) = 0 THEN [store |-> S, tags |-> <<>>, err |-> Nil]
    ELSE resolveTagsFrom(S, tagNames, 1, <<>>)

\* addCmd.RunE: the tags are resolved, then the task is made (a recurring
\* one from --recur, a regular one from --date or the clock) and created
addCmd(S, title, details, recur, tagNames, date, now) ==
    LET create(resolved, made) ==
            IF made.err # Nil THEN [store |-> resolved.store, err |-> made.err]
            ELSE LET created == Create(resolved.store,
                                       [made.task EXCEPT !.tags = resolved.tags])
                 IN  [store |-> created.store, err |-> created.err]
        recurringTask(resolved, parsed) ==
            IF parsed.err # Nil
            THEN [store |-> resolved.store, err |-> "invalid recurrence pattern"]
            ELSE create(resolved, NewRecurringTask(title, details, parsed.pattern, now))
        regularTask(resolved, when) ==
            IF when.err # Nil
            THEN [store |-> resolved.store, err |-> "invalid date format (use YYYY-MM-DD)"]
            ELSE create(resolved, NewTask(title, details, when.time))
        run(resolved) ==
            IF resolved.err # Nil THEN [store |-> resolved.store, err |-> resolved.err]
            ELSE IF recur # <<>> THEN recurringTask(resolved, ParsePattern(recur))
            ELSE regularTask(resolved, IF date # <<>> THEN ParseDate(date)
                                       ELSE [time |-> now, err |-> Nil])
    IN  run(resolveTags(S, tagNames))

\* completeCmd.RunE that generates the next instance only for a task not
\* yet completed
completeCmd_OnlyOnce(S, arg) ==
    LET follow(updated, next) ==
            IF updated.err # Nil THEN [store |-> S, err |-> updated.err]
            ELSE IF next.err # Nil
                 THEN [store |-> updated.store, err |-> "failed to generate next instance"]
            ELSE IF ~next.some THEN [store |-> updated.store, err |-> Nil]
            ELSE LET created == Create(updated.store, next.task)
                 IN  IF created.err # Nil
                     THEN [store |-> updated.store,
                           err |-> "failed to create next instance"]
                     ELSE [store |-> created.store, err |-> Nil]
        mark(task, done) ==
            follow(Update(S, task),
                   IF IsRecurring(task.pattern) /\ ~done THEN GenerateNextInstance(task)
                   ELSE [some |-> FALSE, task |-> NoTask, err |-> Nil])
        run(id, found) ==
            IF ~id.ok THEN [store |-> S, err |-> "invalid task ID"]
            ELSE IF found.err # Nil THEN [store |-> S, err |-> found.err]
            ELSE mark([found.task EXCEPT !.completed = TRUE], found.task.completed)
    IN  run(Atoi(arg), GetByID(S, Atoi(arg).value))

\* completeCmd.RunE that generates the next instance before it updates
\* the task
completeCmd_GenerateFirst(S, arg) ==
    LET follow(next, task) ==
            IF next.err # Nil THEN [store |-> S, err |-> "failed to generate next instance"]
            ELSE LET updated == Update(S, task)
                 IN  IF updated.err # Nil THEN [store |-> S, err |-> updated.err]
                     ELSE IF ~next.some THEN [store |-> updated.store, err |-> Nil]
                     ELSE [store |-> Create(updated.store, next.task).store, err |-> Nil]
        mark(task) ==
            follow(IF IsRecurring(task.pattern) THEN GenerateNextInstance(task)
                   ELSE [some |-> FALSE, task |-> NoTask, err |-> Nil],
                   task)
        run(id, found) ==
            IF ~id.ok THEN [store |-> S, err |-> "invalid task ID"]
            ELSE IF found.err # Nil THEN [store |-> S, err |-> found.err]
            ELSE mark([found.task EXCEPT !.completed = TRUE])
    IN  run(Atoi(arg), GetByID(S, Atoi(arg).value))

\* completeCmd.RunE: the task is read, marked and updated; a recurring task
\* gets its next instance created
completeCmd(S, arg) ==
    LET follow(updated, next) ==
            IF updated.err # Nil THEN [store |-> S, err |-> updated.err]
            ELSE IF next.err # Nil
                 THEN [store |-> updated.store, err |-> "failed to generate next instance"]
            ELSE IF ~next.some THEN [store |-> updated.store, err |-> Nil]
            ELSE LET created == Create(updated.store, next.task)
                 IN  IF created.err # Nil
                     THEN [store |-> updated.store,
                           err |-> "failed to create next instance"]
                     ELSE [store |-> created.store, err |-> Nil]
        mark(task) ==
            follow(Update(S, task),
                   IF IsRecurring(task.pattern) THEN GenerateNextInstance(task)
                   ELSE [some |-> FALSE, task |-> NoTask, err |-> Nil])
        run(id, found) ==
            IF ~id.ok THEN [store |-> S, err |-> "invalid task ID"]
            ELSE IF found.err # Nil THEN [store |-> S, err |-> found.err]
            ELSE mark([found.task EXCEPT !.completed = TRUE])
    IN  run(Atoi(arg), GetByID(S, Atoi(arg).value))

\* skipCmd.RunE: the task is read, marked and updated; a recurring task
\* gets its next instance created
skipCmd(S, arg) ==
    LET follow(updated, next) ==
            IF updated.err # Nil THEN [store |-> S, err |-> updated.err]
            ELSE IF next.err # Nil
                 THEN [store |-> updated.store, err |-> "failed to generate next instance"]
            ELSE IF ~next.some THEN [store |-> updated.store, err |-> Nil]
            ELSE LET created == Create(updated.store, next.task)
                 IN  IF created.err # Nil
                     THEN [store |-> updated.store,
                           err |-> "failed to create next instance"]
                     ELSE [store |-> created.store, err |-> Nil]
        mark(task) ==
            follow(Update(S, task),
                   IF IsRecurring(task.pattern) THEN GenerateNextInstance(task)
                   ELSE [some |-> FALSE, task |-> NoTask, err |-> Nil])
        run(id, found) ==
            IF ~id.ok THEN [store |-> S, err |-> "invalid task ID"]
            ELSE IF found.err # Nil THEN [store |-> S, err |-> found.err]
            ELSE mark([found.task EXCEPT !.skipped = TRUE])
    IN  run(Atoi(arg), GetByID(S, Atoi(arg).value))

\* unskipCmd.RunE
unskipCmd(S, arg) ==
    LET run(id, found) ==
            IF ~id.ok THEN [store |-> S, err |-> "invalid task ID"]
            ELSE IF found.err # Nil THEN [store |-> S, err |-> found.err]
            ELSE Update(S, [found.task EXCEPT !.skipped = FALSE])
    IN  run(Atoi(arg), GetByID(S, Atoi(arg).value))

\* incompleteCmd.RunE
incompleteCmd(S, arg) ==
    LET run(id, found) ==
            IF ~id.ok THEN [store |-> S, err |-> "invalid task ID"]
            ELSE IF found.err # Nil THEN [store |-> S, err |-> found.err]
            ELSE Update(S, [found.task EXCEPT !.completed = FALSE])
    IN  run(Atoi(arg), GetByID(S, Atoi(arg).value))

\* editCmd.RunE with Task.Update; detailsChanged is cmd.Flags().Changed("details")
editCmd(S, arg, editTitle, detailsChanged, editDetails) ==
    LET run(id, found) ==
            IF ~id.ok THEN [store |-> S, err |-> "invalid task ID"]
            ELSE IF found.err # Nil THEN [store |-> S, err |-> found.err]
            ELSE Update(S, [found.task EXCEPT
                                !.title = IF editTitle # <<>> THEN editTitle ELSE @,
                                !.details = IF detailsChanged THEN editDetails ELSE @])
    IN  run(Atoi(arg), GetByID(S, Atoi(arg).value))

\* storage.StartOfDay and storage.EndOfDay (to the second)
StartOfDay(t) == Date(t.year, t.month, t.day, 0, 0, 0)
EndOfDay(t) == Date(t.year, t.month, t.day, 23, 59, 59)

\* ORDER BY date ASC, created_at ASC: the rows ids in that order; rows are
\* created in the order of their IDs
RECURSIVE ByDate(_, _)
ByDate(S, ids) ==
    IF ids = {} THEN <<>>
    ELSE LET first == CHOOSE i \in ids :
                          \A j \in ids \ {i} :
                              \/ After(S.tasks[j].date, S.tasks[i].date)
                              \/ S.tasks[j].date = S.tasks[i].date /\ i < j
         IN  <<GetByID(S, first).task>> \o ByDate(S, ids \ {first})

\* SQLiteStorage.List that leaves out WHERE skipped = 0
List_WithSkipped(S, filter, now) ==
    LET today == StartOfDay(now)
        InFilter(date) ==
            IF filter = FilterPast THEN After(today, date)
            ELSE IF filter = FilterCurrent
                 THEN ~After(today, date) /\ ~After(date, EndOfDay(now))
            ELSE IF filter = FilterFuture THEN ~After(AddDate(today, 0, 0, 1), date)
            ELSE TRUE
    IN  ByDate(S, {i \in 1..Len(S.tasks) : InFilter(S.tasks[i].date)})

\* SQLiteStorage.List; now is the reading of the clock
List(S, filter, now) ==
    LET today == StartOfDay(now)
        InFilter(date) ==
            IF filter = FilterPast THEN After(today, date)
            ELSE IF filter = FilterCurrent
                 THEN ~After(today, date) /\ ~After(date, EndOfDay(now))
            ELSE IF filter = FilterFuture THEN ~After(AddDate(today, 0, 0, 1), date)
            ELSE TRUE
    IN  ByDate(S, {i \in 1..Len(S.tasks) :
                      ~S.tasks[i].skipped /\ InFilter(S.tasks[i].date)})

-----------------------------------------------------------------------------
(* The commands on the store: each run of the program opens the database  *)
(* (NewSQLiteStorage, whose migrate leaves an existing database as it     *)
(* is), runs one command and closes it                                    *)

\* most tasks in the store for add to run
MaxAdded == 1
\* most tasks in the store for a command other than add to run
MaxTasks == 3

engineVars == <<form, input, pat, perr, shown, shownOf, after, result, err, pc,
                recurring, again, steps>>

\* the three tables now
Store == [tasks |-> tasks, tags |-> tags, taskTags |-> taskTags]

\* the command lines of add: title, --details, --recur, --tags, --date
AddArguments ==
    {[title |-> <<"P", "a", "y", " ", "r", "e", "n", "t">>, details |-> <<"t", "o", " ", "t", "h", "e", " ", "l", "a", "n", "d", "l", "o", "r", "d">>, recur |-> r, tagNames |-> g,
      date |-> <<>>] :
        r \in {<<"e", "v", "e", "r", "y", " ", "m", "o", "n", "d", "a", "y">>, <<"3", "1", "s", "t">>, <<"2", "n", "d", " ", "w", "e", "e", "k", "d", "a", "y", " ", "o", "f", " ", "t", "h", "e", " ", "m", "o", "n", "t", "h">>,
               <<"l", "a", "s", "t", " ", "w", "e", "e", "k", "e", "n", "d", " ", "o", "f", " ", "t", "h", "e", " ", "m", "o", "n", "t", "h">>, <<"w", "h", "e", "n", "e", "v", "e", "r">>, <<"3", "2", "n", "d">>},
        g \in {<<>>, <<<<" ", "W", "o", "r", "k", " ">>, <<"b", "i", "l", "l", "s">>>>, <<<<"h", "o", "m", "e">>, <<"m", "y", " ", "o", "f", "f", "i", "c", "e">>>>}}
    \cup
    {[title |-> <<"B", "u", "y", " ", "m", "i", "l", "k">>, details |-> <<>>, recur |-> <<>>, tagNames |-> g, date |-> d] :
        g \in {<<>>, <<<<"b", "i", "l", "l", "s">>>>},
        d \in {<<>>, <<"2", "0", "2", "5", "-", "0", "3", "-", "3", "1">>, <<"2", "0", "2", "5", "-", "0", "2", "-", "3", "0">>}}
    \cup
    {[title |-> <<>>, details |-> <<>>, recur |-> r, tagNames |-> <<<<"b", "i", "l", "l", "s">>>>, date |-> <<>>] :
        r \in {<<>>, <<"e", "v", "e", "r", "y", " ", "m", "o", "n", "d", "a", "y">>}}

\* the task IDs given to complete and skip
TaskArguments == {<<"1">>, <<"2">>, <<"x">>}

\* time.Now()
Clock == {Date(2025, 1, 30, 10, 30, 0), Date(2025, 12, 31, 23, 59, 59)}

StoreInit ==
    /\ form = EmptyForm
    /\ input = <<>>
    /\ pat = PatternNone
    /\ perr = Nil
    /\ shown = <<>>
    /\ shownOf = <<>>
    /\ after = ZeroTime
    /\ result = ZeroTime
    /\ err = Nil
    /\ pc = "store"
    /\ recurring = FALSE
    /\ again = NoCall
    /\ steps = NoSteps
    /\ tasks = <<>>
    /\ tags = <<>>
    /\ taskTags = {}
    /\ before = EmptyStore
    /\ cmd = NoCommand

\* facienda add <title> [--details d] [--recur r] [--tags g] [--date d]
RunAdd ==
    /\ Len(tasks) < MaxAdded
    /\ \E a \in AddArguments, now \in Clock :
           \E r \in {addCmd(Store, a.title, a.details, a.recur, a.tagNames, a.date, now)} :
               /\ tasks' = r.store.tasks
               /\ tags' = r.store.tags
               /\ taskTags' = r.store.taskTags
               /\ cmd' = [name |-> "add", id |-> <<>>, title |-> a.title,
                          details |-> a.details, recur |-> a.recur,
                          tagNames |-> a.tagNames, date |-> a.date, now |-> now,
                          filter |-> FilterAll, listed |-> <<>>, err |-> r.err]
    /\ before' = Store
    /\ UNCHANGED engineVars

\* facienda complete <task-id>
RunComplete ==
    /\ Len(tasks) < MaxTasks
    /\ \E arg \in TaskArguments :
           \E r \in {completeCmd(Store, arg)} :
               /\ tasks' = r.store.tasks
               /\ tags' = r.store.tags
               /\ taskTags' = r.store.taskTags
               /\ cmd' = [NoCommand EXCEPT !.name = "complete", !.id = arg, !.err = r.err]
    /\ before' = Store
    /\ UNCHANGED engineVars

\* facienda skip <task-id>
RunSkip ==
    /\ Len(tasks) < MaxTasks
    /\ \E arg \in TaskArguments :
           \E r \in {skipCmd(Store, arg)} :
               /\ tasks' = r.store.tasks
               /\ tags' = r.store.tags
               /\ taskTags' = r.store.taskTags
               /\ cmd' = [NoCommand EXCEPT !.name = "skip", !.id = arg, !.err = r.err]
    /\ before' = Store
    /\ UNCHANGED engineVars

\* facienda incomplete <task-id>
RunIncomplete ==
    /\ Len(tasks) < MaxTasks
    /\ \E arg \in TaskArguments :
           \E r \in {incompleteCmd(Store, arg)} :
               /\ tasks' = r.store.tasks
               /\ tags' = r.store.tags
               /\ taskTags' = r.store.taskTags
               /\ cmd' = [NoCommand EXCEPT !.name = "incomplete", !.id = arg, !.err = r.err]
    /\ before' = Store
    /\ UNCHANGED engineVars

StoreNext == RunAdd \/ RunComplete \/ RunSkip \/ RunIncomplete

StoreSpec == StoreInit /\ [][StoreNext]_vars

-----------------------------------------------------------------------------
(* Skipping, unskipping, editing and listing: the commands that hide a    *)
(* task, bring it back and change it, and the list the user is shown      *)

\* edit --title and --details: title, whether --details was given, details
EditArguments ==
    {<<<<>>, FALSE, <<>>>>, <<<<"P", "a", "y", " ", "t", "h", "e", " ", "r", "e", "n", "t">>, TRUE, <<"b", "y", " ", "t", "r", "a", "n", "s", "f", "e", "r">>>>}

\* facienda unskip <task-id>
RunUnskip ==
    /\ Len(tasks) < MaxTasks
    /\ \E arg \in TaskArguments :
           \E r \in {unskipCmd(Store, arg)} :
               /\ tasks' = r.store.tasks
               /\ tags' = r.store.tags
               /\ taskTags' = r.store.taskTags
               /\ cmd' = [NoCommand EXCEPT !.name = "unskip", !.id = arg, !.err = r.err]
    /\ before' = Store
    /\ UNCHANGED engineVars

\* facienda edit <task-id> [--title t] [--details d]
RunEdit ==
    /\ Len(tasks) < MaxTasks
    /\ \E arg \in TaskArguments, e \in EditArguments :
           \E r \in {editCmd(Store, arg, e[1], e[2], e[3])} :
               /\ tasks' = r.store.tasks
               /\ tags' = r.store.tags
               /\ taskTags' = r.store.taskTags
               /\ cmd' = [NoCommand EXCEPT !.name = "edit", !.id = arg, !.title = e[1],
                                           !.details = e[3], !.err = r.err]
    /\ before' = Store
    /\ UNCHANGED engineVars

\* store.List(filter), as list, past and future call it
CallList ==
    /\ Len(tasks) < MaxTasks
    /\ \E filter \in FilterAll..FilterFuture, now \in Clock :
           cmd' = [NoCommand EXCEPT !.name = "list", !.filter = filter, !.now = now,
                                    !.listed = List(Store, filter, now)]
    /\ before' = Store
    /\ UNCHANGED <<tasks, tags, taskTags>>
    /\ UNCHANGED engineVars

ListNext == RunAdd \/ RunSkip \/ RunUnskip \/ RunEdit \/ CallList

ListSpec == StoreInit /\ [][ListNext]_vars

-----------------------------------------------------------------------------
(* Commands on a store that holds a task whose pattern column was not     *)
(* written by ParsePattern: the store converts the text of the column,    *)
(* recurrence.Pattern(text), whatever it is                               *)

StoredTexts == {TextOf(f) : f \in MalformedForms \cup UnparsedForms}

ForeignInit ==
    /\ form = EmptyForm
    /\ input = <<>>
    /\ pat = PatternNone
    /\ perr = Nil
    /\ shown = <<>>
    /\ shownOf = <<>>
    /\ after = ZeroTime
    /\ result = ZeroTime
    /\ err = Nil
    /\ pc = "store"
    /\ recurring = FALSE
    /\ again = NoCall
    /\ steps = NoSteps
    /\ \E text \in StoredTexts, date \in RobustInstants :
           tasks = <<[title |-> <<"P", "a", "y", " ", "r", "e", "n", "t">>, details |-> <<>>, date |-> date,
                      completed |-> FALSE, skipped |-> FALSE, pattern |-> text]>>
    /\ tags = <<>>
    /\ taskTags = {}
    /\ before = EmptyStore
    /\ cmd = NoCommand

ForeignNext == RunComplete \/ RunSkip \/ RunIncomplete

ForeignSpec == ForeignInit /\ [][ForeignNext]_vars

-----------------------------------------------------------------------------
(* The first instance of a recurring task: a pattern is given and the     *)
(* clock read (after holds the reading), and NewRecurringTask dates the   *)
(* task                                                                   *)

\* task, err := todo.NewRecurringTask(title, details, pattern)
CallNewRecurringTask ==
    /\ pc = "stored"
    /\ \E r \in {NewRecurringTask(<<"P", "a", "y", " ", "t", "h", "e", " ", "r", "e", "n", "t">>, <<>>, pat, after)} :
           result' = r.task.date /\ err' = r.err
    /\ pc' = "created"
    /\ UNCHANGED <<form, input, pat, perr, shown, shownOf, after, recurring, again, steps,
                   storeVars>>

FirstNext == CallNewRecurringTask

FirstSpec == Init /\ [][FirstNext]_vars

-----------------------------------------------------------------------------
(* Vocabulary of the claims about NextOccurrence *)

Returned == pc = "returned"

\* the calendar date of an instant
SameDate(t, y, m, d) == t.year = y /\ t.month = m /\ t.day = d

LastDayOf(y, m) == DaysIn(y, m)

\* the month after month m of year y
FollowingYear(y, m) == IF m = 12 THEN y + 1 ELSE y
FollowingMonth(m) == IF m = 12 THEN 1 ELSE m + 1

\* the weekday of a calendar date, Sunday = 0
WeekdayOfDate(y, m, d) == (AbsDay(y, m, d) + 1) % 7

IsMonToFri(y, m, d) == WeekdayOfDate(y, m, d) \in 1..5
IsSatOrSun(y, m, d) == WeekdayOfDate(y, m, d) \in {0, 6}

\* the day of month of the n-th Monday-to-Friday day of a month (n in 1..5)
NthWeekdayOf(y, m, n) ==
    CHOOSE d \in 1..DaysIn(y, m) :
        IsMonToFri(y, m, d) /\ Cardinality({k \in 1..d : IsMonToFri(y, m, k)}) = n

\* the day of month of the last Saturday or Sunday of a month
LastWeekendDayOf(y, m) ==
    CHOOSE d \in 1..DaysIn(y, m) :
        IsSatOrSun(y, m, d) /\ \A k \in (d + 1)..DaysIn(y, m) : ~IsSatOrSun(y, m, k)

\* the day names in the order of time.Weekday
WeekdayNames == <<<<"s", "u", "n", "d", "a", "y">>, <<"m", "o", "n", "d", "a", "y">>, <<"t", "u", "e", "s", "d", "a", "y">>, <<"w", "e", "d", "n", "e", "s", "d", "a", "y">>, <<"t", "h", "u", "r", "s", "d", "a", "y">>, <<"f", "r", "i", "d", "a", "y">>, <<"s", "a", "t", "u", "r", "d", "a", "y">>>>

-----------------------------------------------------------------------------
(* C1: for every recurring pattern ParsePattern produces and every        *)
(* reference date, NextOccurrence returns a date whose calendar date is   *)
(* strictly after the reference date.                                     *)
C1_StrictlyAfterReference ==
    (Returned /\ pat # PatternNone) =>
        (err = Nil /\ DayNumber(result) > DayNumber(after))

(* C2: for monthly(d) with d greater than the length of the reference     *)
(* month and a reference before the last day of that month, NextOccurrence*)
(* returns the last day of the reference month.                           *)
C2_ClampsInReferenceMonth ==
    \A d \in 29..31 :
        (/\ Returned
         /\ pat = MonthlyPattern(d)
         /\ d > DaysIn(after.year, after.month)
         /\ after.day < LastDayOf(after.year, after.month))
        => (/\ err = Nil
            /\ SameDate(result, after.year, after.month,
                        LastDayOf(after.year, after.month)))

(* C3: for monthly(d), when day d of the reference month is not strictly  *)
(* after the reference date and the following month has fewer than d days,*)
(* NextOccurrence returns the last day of the following month.            *)
C3_ClampsInFollowingMonth ==
    \A d \in 29..31 :
        LET fy == FollowingYear(after.year, after.month)
            fm == FollowingMonth(after.month)
        IN  (/\ Returned
             /\ pat = MonthlyPattern(d)
             /\ d <= after.day
             /\ DaysIn(fy, fm) < d)
            => (err = Nil /\ SameDate(result, fy, fm, LastDayOf(fy, fm)))

(* C4: NextOccurrence(weekly(d), r) falls on weekday d, is strictly after *)
(* r's calendar date and at most 7 days after it; when r itself falls on  *)
(* weekday d the result is exactly 7 days later.                          *)
C4_WeeklyWithinSevenDays ==
    \A w \in 0..6 :
        (Returned /\ pat = <<"w", "e", "e", "k", "l", "y", ":">> \o WeekdayNames[w + 1]) =>
            LET delta == DayNumber(result) - DayNumber(after)
            IN  /\ err = Nil
                /\ WeekdayOfDate(result.year, result.month, result.day) = w
                /\ delta \in 1..7
                /\ (WeekdayOfDate(after.year, after.month, after.day) = w => delta = 7)

C4_Witness ==
    /\ Returned
    /\ pat = <<"w", "e", "e", "k", "l", "y", ":", "m", "o", "n", "d", "a", "y">>
    /\ SameDate(after, 2025, 11, 10)
    /\ SameDate(result, 2025, 11, 17)

(* C5: for monthly(n) with n in 1..28 the returned date has day-of-month n*)
(* and is strictly after r: in r's month when r's day-of-month is less    *)
(* than n, otherwise in the following month, December rolling over to     *)
(* January of the next year.                                              *)
C5_MonthlyDayUpTo28 ==
    \A n \in 1..28 :
        (Returned /\ pat = <<"m", "o", "n", "t", "h", "l", "y", ":">> \o Itoa(n)) =>
            /\ err = Nil
            /\ DayNumber(result) > DayNumber(after)
            /\ IF after.day < n
               THEN SameDate(result, after.year, after.month, n)
               ELSE SameDate(result, FollowingYear(after.year, after.month),
                             FollowingMonth(after.month), n)

C5_Witness ==
    /\ Returned
    /\ pat = <<"m", "o", "n", "t", "h", "l", "y", ":", "1", "5">>
    /\ SameDate(after, 2025, 12, 15)
    /\ SameDate(result, 2026, 1, 15)

(* C6: NextOccurrence(monthlyNthWeekday(n)), n in 1..5, returns the n-th  *)
(* Monday-to-Friday day of its month: that of the reference month when it *)
(* is on a later calendar date than the reference, otherwise that of the  *)
(* following month, December rolling over to January.                     *)
C6_NthWeekdayOfMonth ==
    \A n \in 1..5 :
        (Returned /\ pat = <<"m", "o", "n", "t", "h", "l", "y", "-", "n", "t", "h", "-", "w", "e", "e", "k", "d", "a", "y", ":">> \o Itoa(n)) =>
            LET here == NthWeekdayOf(after.year, after.month, n)
                fy   == FollowingYear(after.year, after.month)
                fm   == FollowingMonth(after.month)
            IN  /\ err = Nil
                /\ IsMonToFri(result.year, result.month, result.day)
                /\ result.day = NthWeekdayOf(result.year, result.month, n)
                /\ IF here > after.day
                   THEN SameDate(result, after.year, after.month, here)
                   ELSE SameDate(result, fy, fm, NthWeekdayOf(fy, fm, n))

C6_Witness ==
    /\ Returned
    /\ pat = <<"m", "o", "n", "t", "h", "l", "y", "-", "n", "t", "h", "-", "w", "e", "e", "k", "d", "a", "y", ":", "1">>
    /\ SameDate(after, 2025, 12, 1)
    /\ SameDate(result, 2026, 1, 1)

(* C7: NextOccurrence(monthlyLastWeekend) returns the last Saturday or    *)
(* Sunday of a month: that of the reference month when it is on a later   *)
(* calendar date than the reference, otherwise that of the following      *)
(* month, December rolling over to January.                               *)
C7_LastWeekendOfMonth ==
    (Returned /\ pat = <<"m", "o", "n", "t", "h", "l", "y", "-", "l", "a", "s", "t", "-", "w", "e", "e", "k", "e", "n", "d">>) =>
        LET here == LastWeekendDayOf(after.year, after.month)
            fy   == FollowingYear(after.year, after.month)
            fm   == FollowingMonth(after.month)
        IN  /\ err = Nil
            /\ IsSatOrSun(result.year, result.month, result.day)
            /\ \A k \in (result.day + 1)..DaysIn(result.year, result.month) :
                   ~IsSatOrSun(result.year, result.month, k)
            /\ IF here > after.day
               THEN SameDate(result, after.year, after.month, here)
               ELSE SameDate(result, fy, fm, LastWeekendDayOf(fy, fm))

C7_Witness ==
    /\ Returned
    /\ pat = <<"m", "o", "n", "t", "h", "l", "y", "-", "l", "a", "s", "t", "-", "w", "e", "e", "k", "e", "n", "d">>
    /\ SameDate(after, 2025, 11, 30)
    /\ SameDate(result, 2025, 12, 28)

-----------------------------------------------------------------------------
(* Vocabulary of the claims about ParsePattern *)

Parsed == pc = "parsed"
Reparsed == pc = "reparsed"

\* the number a text of digits writes
NumberOf(digits) == DigitsValue(digits)

OrdinalNames == <<<<"f", "i", "r", "s", "t">>, <<"s", "e", "c", "o", "n", "d">>, <<"t", "h", "i", "r", "d">>, <<"f", "o", "u", "r", "t", "h">>, <<"f", "i", "f", "t", "h">>>>

IsWeeklyPattern(p) == \E w \in 1..7 : p = <<"w", "e", "e", "k", "l", "y", ":">> \o WeekdayNames[w]

C9_InvalidDayOutsideRange ==
    /\ (Parsed /\ form.family = "monthly" /\ NumberOf(form.num) \notin 1..31)
           => (perr = ErrInvalidDay /\ pat = <<>>)
    /\ (Parsed /\ form.family = "other")
           => (perr = ErrInvalidPattern /\ pat = <<>>)

(* C10: every input of the Nth-weekday form whose number is outside 1..5  *)
(* fails with ErrInvalidPattern (not ErrInvalidDay, not a monthly-day     *)
(* pattern); for the numbers 1..5 and the words first..fifth the result   *)
(* is monthlyNthWeekday(n) with the matching n.                           *)
C10_NthWeekdayOrdinalRange ==
    /\ (Parsed /\ form.family = "nth-weekday") =>
           LET n == NumberOf(form.num)
           IN  IF n \in 1..5
               THEN perr = Nil /\ pat = <<"m", "o", "n", "t", "h", "l", "y", "-", "n", "t", "h", "-", "w", "e", "e", "k", "d", "a", "y", ":">> \o <<Digits[n + 1]>>
               ELSE perr = ErrInvalidPattern /\ pat = <<>>
    /\ (Parsed /\ form.family = "nth-weekday-word") =>
           \E n \in 1..5 :
               /\ ToLower(form.num) = OrdinalNames[n]
               /\ perr = Nil
               /\ pat = <<"m", "o", "n", "t", "h", "l", "y", "-", "n", "t", "h", "-", "w", "e", "e", "k", "d", "a", "y", ":">> \o <<Digits[n + 1]>>

C10_Witness ==
    /\ Parsed
    /\ form.family = "nth-weekday"
    /\ input = <<"6", "t", "h", " ", "w", "e", "e", "k", "d", "a", "y", " ", "o", "f", " ", "t", "h", "e", " ", "m", "o", "n", "t", "h">>
    /\ perr = ErrInvalidPattern
    /\ pat = <<>>

-----------------------------------------------------------------------------
(* NextOccurrence: errors, time of day, dependence on the reference *)

IsMonthlyPattern(p) == \E n \in 1..31 : p = <<"m", "o", "n", "t", "h", "l", "y", ":">> \o Itoa(n)
IsNthWeekdayPattern(p) == \E n \in 1..5 : p = <<"m", "o", "n", "t", "h", "l", "y", "-", "n", "t", "h", "-", "w", "e", "e", "k", "d", "a", "y", ":">> \o Itoa(n)
IsLastWeekendPattern(p) == p = <<"m", "o", "n", "t", "h", "l", "y", "-", "l", "a", "s", "t", "-", "w", "e", "e", "k", "e", "n", "d">>

\* the same calendar date at another time of day
AtTimeOfDay(t, tod) == Date(t.year, t.month, t.day, tod[1], tod[2], tod[3])

(* C13: for every reference date, NextOccurrence on the none pattern      *)
(* returns ErrInvalidPattern and the zero time; never a date with a nil   *)
(* error.                                                                 *)
C13_NoneHasNoOccurrence ==
    (Returned /\ pat = PatternNone) =>
        (err = ErrInvalidPattern /\ err # Nil /\ result = ZeroTime)

C13_Witness ==
    /\ Returned
    /\ pat = PatternNone
    /\ SameDate(after, 2025, 6, 15)
    /\ err = ErrInvalidPattern
    /\ result = ZeroTime

(* C14: every date NextOccurrence returns without error, for each of the  *)
(* four recurring families and every reference instant whatever its time  *)
(* of day, is at 00:00:00.                                                *)
C14_StartOfDay ==
    (Returned /\ err = Nil) =>
        /\ IsWeeklyPattern(pat) \/ IsMonthlyPattern(pat)
               \/ IsNthWeekdayPattern(pat) \/ IsLastWeekendPattern(pat)
        /\ result.hour = 0 /\ result.minute = 0 /\ result.second = 0

C14_Witness ==
    /\ Returned
    /\ pat = <<"w", "e", "e", "k", "l", "y", ":", "f", "r", "i", "d", "a", "y">>
    /\ after = Date(2025, 3, 5, 23, 59, 59)
    /\ err = Nil
    /\ result = Date(2025, 3, 7, 0, 0, 0)

(* C15: two calls with the same pattern and two reference instants on the *)
(* same calendar date return the same result: the result of a call is the *)
(* result for every other time of day of the reference date.              *)
C15_DependsOnDateOnly ==
    Returned =>
        \A tod \in TimesOfDay :
            NextOccurrence(pat, AtTimeOfDay(after, tod)) = [time |-> result, err |-> err]

\* the reference is the very day of the occurrence this month, at its end
C15_Witness ==
    /\ Returned
    /\ pat = <<"m", "o", "n", "t", "h", "l", "y", "-", "l", "a", "s", "t", "-", "w", "e", "e", "k", "e", "n", "d">>
    /\ after = Date(2025, 6, 29, 23, 59, 59)
    /\ NextOccurrence(pat, Date(2025, 6, 29, 0, 0, 0)) = [time |-> result, err |-> Nil]
    /\ result = Date(2025, 7, 27, 0, 0, 0)

-----------------------------------------------------------------------------
(* Pattern.String *)

Shown == pc \in {"shown", "reparsed"}

WeekdayTitles == <<<<"S", "u", "n", "d", "a", "y">>, <<"M", "o", "n", "d", "a", "y">>, <<"T", "u", "e", "s", "d", "a", "y">>, <<"W", "e", "d", "n", "e", "s", "d", "a", "y">>, <<"T", "h", "u", "r", "s", "d", "a", "y">>, <<"F", "r", "i", "d", "a", "y">>, <<"S", "a", "t", "u", "r", "d", "a", "y">>>>

OrdinalLabels == <<<<"1", "s", "t">>, <<"2", "n", "d">>, <<"3", "r", "d">>, <<"4", "t", "h">>, <<"5", "t", "h">>>>

(* C20: Pattern.String returns "none" for the none pattern, "Every        *)
(* <Weekday>" with the weekday name capitalised for weekly, "Day <n> of   *)
(* each month" for monthly(n), "<ordinal> weekday of each month" with the *)
(* ordinal 1st, 2nd, 3rd, 4th or 5th for monthlyNthWeekday(1..5), and     *)
(* "Last weekend of each month" for monthlyLastWeekend; every pattern is  *)
(* of one of the five shapes.                                             *)
C20_StringLabels ==
    Shown =>
        \/ shownOf = PatternNone /\ shown = <<"n", "o", "n", "e">>
        \/ \E w \in 1..7 :
               /\ shownOf = <<"w", "e", "e", "k", "l", "y", ":">> \o WeekdayNames[w]
               /\ shown = <<"E", "v", "e", "r", "y", " ">> \o WeekdayTitles[w]
        \/ \E n \in 1..31 :
               /\ shownOf = <<"m", "o", "n", "t", "h", "l", "y", ":">> \o Itoa(n)
               /\ shown = <<"D", "a", "y", " ">> \o Itoa(n) \o <<" ", "o", "f", " ", "e", "a", "c", "h", " ", "m", "o", "n", "t", "h">>
        \/ \E n \in 1..5 :
               /\ shownOf = <<"m", "o", "n", "t", "h", "l", "y", "-", "n", "t", "h", "-", "w", "e", "e", "k", "d", "a", "y", ":">> \o Itoa(n)
               /\ shown = OrdinalLabels[n] \o <<" ", "w", "e", "e", "k", "d", "a", "y", " ", "o", "f", " ", "e", "a", "c", "h", " ", "m", "o", "n", "t", "h">>
        \/ shownOf = <<"m", "o", "n", "t", "h", "l", "y", "-", "l", "a", "s", "t", "-", "w", "e", "e", "k", "e", "n", "d">> /\ shown = <<"L", "a", "s", "t", " ", "w", "e", "e", "k", "e", "n", "d", " ", "o", "f", " ", "e", "a", "c", "h", " ", "m", "o", "n", "t", "h">>

C20_Witness ==
    /\ pc = "shown"
    /\ input = <<"s", "e", "c", "o", "n", "d", " ", "w", "e", "e", "k", "d", "a", "y", " ", "o", "f", " ", "t", "h", "e", " ", "m", "o", "n", "t", "h">>
    /\ shownOf = <<"m", "o", "n", "t", "h", "l", "y", "-", "n", "t", "h", "-", "w", "e", "e", "k", "d", "a", "y", ":", "2">>
    /\ shown = <<"2", "n", "d", " ", "w", "e", "e", "k", "d", "a", "y", " ", "o", "f", " ", "e", "a", "c", "h", " ", "m", "o", "n", "t", "h">>

-----------------------------------------------------------------------------
(* The none pattern *)

Asked == pc = "asked"

(* C12: ParsePattern("") returns the none pattern with no error;          *)
(* IsRecurring is false for the none pattern and true for every weekly,   *)
(* monthly, monthlyNthWeekday and monthlyLastWeekend pattern.             *)
C12_NoneIsNotRecurring ==
    /\ ((Parsed \/ Asked) /\ input = <<>>) => (pat = PatternNone /\ perr = Nil)
    /\ Asked =>
           /\ recurring <=> (IsWeeklyPattern(pat) \/ IsMonthlyPattern(pat)
                                 \/ IsNthWeekdayPattern(pat) \/ IsLastWeekendPattern(pat))
           /\ ~recurring <=> pat = PatternNone

C12_Witness ==
    /\ Asked
    /\ input = <<>>
    /\ pat = PatternNone
    /\ perr = Nil
    /\ recurring = FALSE

-----------------------------------------------------------------------------
(* Case and surrounding white space *)

ParsedAgain == pc = "again"

HasNonSpace(x) == \E i \in 1..Len(x) : ~IsSpace(x[i])

SameOutcome == again.pattern = pat /\ again.err = perr

(* C11: for every input x with at least one non-whitespace character,    *)
(* ParsePattern returns the same outcome for x, for x with any of its     *)
(* letters changed between upper and lower case, and for x with leading   *)
(* and trailing whitespace added.                                         *)
C11_SameForEveryLetter ==
    (ParsedAgain /\ HasNonSpace(input)) => SameOutcome

(* C11, amended: the outcome is the same for x, for x with any of its     *)
(* letters A..Z, a..z changed between upper and lower case, and for x     *)
(* with leading and trailing whitespace added.  (Changing the case of a   *)
(* letter outside ASCII can change the outcome: the long s and the        *)
(* dotless i are rejected, their upper case S and I are accepted.)        *)
C11_SameForAsciiLetters ==
    (ParsedAgain /\ HasNonSpace(input)
         /\ \A i \in again.changed : input[i] \notin {LongS, DotlessI})
        => SameOutcome

C11_Witness ==
    /\ ParsedAgain
    /\ input = <<"E", "v", "e", "r", "y", " ", "T", "u", "e", "s", "d", "a", "y">>
    /\ again.text = <<"\t", " ">> \o <<"e", "V", "E", "R", "Y", " ", "t", "U", "E", "S", "D", "A", "Y">> \o <<" ", "\n">>
    /\ pat = <<"w", "e", "e", "k", "l", "y", ":", "t", "u", "e", "s", "d", "a", "y">>
    /\ again.pattern = <<"w", "e", "e", "k", "l", "y", ":", "t", "u", "e", "s", "d", "a", "y">>
    /\ perr = Nil /\ again.err = Nil

-----------------------------------------------------------------------------
(* Malformed input *)

OrdinaryErrors == {ErrInvalidPattern, ErrInvalidDay}

(* C17: for every Pattern value NextOccurrence returns: a date with no    *)
(* error, or the zero time with ErrInvalidPattern or ErrInvalidDay; for   *)
(* the strings ParsePattern never produces (unknown family tag, no colon  *)
(* or more than one, unknown weekday name, non-numeric parameter, monthly *)
(* parameter outside 1..31, nth-weekday parameter outside 1..5) it is one *)
(* of the two errors.  ParsePattern returns a pattern or one of the two   *)
(* errors for every input text.                                           *)
C17_OrdinaryErrors ==
    /\ Returned =>
           \/ err = Nil /\ result # ZeroTime
           \/ err \in OrdinaryErrors /\ result = ZeroTime
    /\ (Returned /\ form.family \in MalformedKinds) => err \in OrdinaryErrors
    /\ Parsed =>
           \/ perr = Nil
           \/ perr \in OrdinaryErrors /\ pat = <<>>

C17_Witness ==
    /\ Returned
    /\ form.family = "unknown-weekday"
    /\ pat = <<"w", "e", "e", "k", "l", "y", ":", "f", "u", "n", "d", "a", "y">>
    /\ err = ErrInvalidPattern
    /\ result = ZeroTime

-----------------------------------------------------------------------------
(* Termination *)

\* a bound on a loop, doubled when the call moved on to the following month
Allowed(bound) == IF steps.rolled THEN 2 * bound ELSE bound

(* C16: every NextOccurrence call ends within a constant number of loop   *)
(* iterations whatever the reference date: at most 7 day-steps of the     *)
(* weekly scan, 31 iterations of the monthly-day step-back loop, 31       *)
(* day-steps of an nth-weekday scan and 7 day-steps of a backward weekend *)
(* scan, each doubled at most when the call rolls to the following month. *)
C16_LoopBounds ==
    Returned =>
        /\ steps.weekly <= 7
        /\ steps.monthly <= Allowed(31)
        /\ steps.nthWeekday <= Allowed(31)
        /\ steps.weekend <= Allowed(7)

-----------------------------------------------------------------------------
(* The commands and the store *)

\* the last command was complete or skip and found its task
MarkedTask ==
    /\ cmd.name \in {"complete", "skip"}
    /\ Atoi(cmd.id).ok
    /\ Atoi(cmd.id).value \in 1..Len(before.tasks)

TagIDsOf(S, taskID) == {q[2] : q \in {p \in S.taskTags : p[1] = taskID}}

(* C18: when complete or skip runs on a stored task whose pattern is      *)
(* recurring and the occurrence computation succeeds, exactly one task is *)
(* added to the store: dated at NextOccurrence(pattern, original's date), *)
(* with the original's title, details, tags and pattern, neither          *)
(* completed nor skipped.  When the pattern is none, no task is added.    *)
C18_OneSuccessor ==
    MarkedTask =>
        LET id   == Atoi(cmd.id).value
            orig == before.tasks[id]
            next == NextOccurrence(orig.pattern, orig.date)
        IN  IF orig.pattern = PatternNone THEN Len(tasks) = Len(before.tasks)
            ELSE next.err = Nil =>
                     /\ cmd.err = Nil
                     /\ Len(tasks) = Len(before.tasks) + 1
                     /\ tasks[Len(tasks)] =
                            [title |-> orig.title, details |-> orig.details,
                             date |-> next.time, completed |-> FALSE, skipped |-> FALSE,
                             pattern |-> orig.pattern]
                     /\ tags = before.tags
                     /\ TagIDsOf(Store, Len(tasks)) = TagIDsOf(before, id)

C18_Witness ==
    /\ cmd.name = "complete"
    /\ cmd.id = <<"1">>
    /\ before.tasks = <<[title |-> <<"P", "a", "y", " ", "r", "e", "n", "t">>, details |-> <<"t", "o", " ", "t", "h", "e", " ", "l", "a", "n", "d", "l", "o", "r", "d">>,
                         date |-> Date(2025, 2, 3, 0, 0, 0), completed |-> FALSE,
                         skipped |-> FALSE, pattern |-> <<"w", "e", "e", "k", "l", "y", ":", "m", "o", "n", "d", "a", "y">>]>>
    /\ Len(tasks) = 2
    /\ tasks[1].completed
    /\ tasks[2].date = Date(2025, 2, 10, 0, 0, 0)
    /\ tags = <<<<"w", "o", "r", "k">>, <<"b", "i", "l", "l", "s">>>>
    /\ taskTags = {<<1, 1>>, <<1, 2>>, <<2, 1>>, <<2, 2>>}

(* C19: when add is given recurrence text that ParsePattern rejects, the  *)
(* command fails and the store is exactly as it was before the command:   *)
(* no task is created and no other stored state, tags named on the same   *)
(* command line included, is created or changed.                          *)
C19_RejectedAddChangesNothing ==
    (cmd.name = "add" /\ cmd.recur # <<>> /\ ParsePattern(cmd.recur).err # Nil) =>
        (cmd.err # Nil /\ Store = before)


-----------------------------------------------------------------------------
(* Claims about the documented forms, the empty input and the order of    *)
(* the alternatives of ParsePattern                                       *)

\* the monthly-day forms of the documentation comment of ParsePattern, each
\* with the day it names
DocumentedMonthlyForms ==
    {<<<<"3", "r", "d", " ", "o", "f", " ", "e", "a", "c", "h", " ", "m", "o", "n", "t", "h">>, 3>>, <<<<"o", "n", " ", "1", "5", "t", "h", " ", "o", "f", " ", "e", "v", "e", "r", "y", " ", "m", "o", "n", "t", "h">>, 15>>,
     <<<<"1", "5", "t", "h", " ", "o", "f", " ", "m", "o", "n", "t", "h">>, 15>>, <<<<"o", "n", " ", "1", "5", "t", "h">>, 15>>}

\* C21: ParsePattern accepts every monthly-day form of its documentation
\* comment: "3rd of each month" parses to monthly(3), "on 15th of every
\* month", "15th of month" and "on 15th" to monthly(15)
C21_DocumentedMonthlyForms ==
    Parsed =>
        \A d \in DocumentedMonthlyForms :
            input = d[1] => perr = Nil /\ pat = MonthlyPattern(d[2])

-----------------------------------------------------------------------------
(* Claims about the commands on the store and the list *)

Listed == cmd.name = "list"
ListedIDs == {cmd.listed[i].id : i \in 1..Len(cmd.listed)}
Ran(name) == cmd.name = name /\ cmd.err = Nil
TaskOfCommand == Atoi(cmd.id).value

\* C22: after any sequence of add, skip, unskip and edit commands, List
\* with any time filter returns no task whose skipped flag is set: a
\* skipped task is not in the list, a task that is not skipped is in the
\* list without a time filter (so it is back after unskip), and GetByID
\* returns a skipped task with its flag
C22_SkippedNotListed ==
    /\ Listed =>
           /\ \A i \in 1..Len(cmd.listed) : ~cmd.listed[i].skipped
           /\ \A id \in 1..Len(tasks) : tasks[id].skipped => id \notin ListedIDs
           /\ cmd.filter = FilterAll =>
                  \A id \in 1..Len(tasks) : ~tasks[id].skipped => id \in ListedIDs
    /\ Ran("skip") =>
           /\ GetByID(Store, TaskOfCommand).err = Nil
           /\ GetByID(Store, TaskOfCommand).task.skipped
    /\ Ran("unskip") =>
           /\ GetByID(Store, TaskOfCommand).err = Nil
           /\ ~GetByID(Store, TaskOfCommand).task.skipped

\* a list without a time filter while one task is skipped and another is
\* not: the first is left out, the second is shown
C22_Witness ==
    /\ Listed
    /\ cmd.filter = FilterAll
    /\ \E id \in 1..Len(tasks) : tasks[id].skipped /\ id \notin ListedIDs
    /\ \E id \in 1..Len(tasks) : ~tasks[id].skipped /\ id \in ListedIDs

-----------------------------------------------------------------------------
(* Claims about the earliest occurrence and the chain of instances *)

\* the calendar date y-m-d is an occurrence of pattern p: a date on the
\* target weekday; day min(d, length of month) for monthly(d); the n-th
\* Monday-to-Friday day of the month; the last Saturday or Sunday of it
IsOccurrence(p, y, m, d) ==
    \/ \E w \in 0..6 : p = WeeklyPattern(WeekdayNames[w + 1]) /\ WeekdayOfDate(y, m, d) = w
    \/ \E n \in 1..31 :
           p = MonthlyPattern(n) /\ d = (IF n < DaysIn(y, m) THEN n ELSE DaysIn(y, m))
    \/ \E n \in 1..5 : p = NthWeekdayPattern(n) /\ d = NthWeekdayOf(y, m, n)
    \/ p = lastWeekendPattern /\ d = LastWeekendDayOf(y, m)

\* no date strictly between the calendar dates of t and u is an occurrence of p
NoOccurrenceBetween(p, t, u) ==
    \A k \in 1..(DayNumber(u) - DayNumber(t) - 1) :
        ~IsOccurrence(p, AddDate(t, 0, 0, k).year, AddDate(t, 0, 0, k).month,
                      AddDate(t, 0, 0, k).day)

\* C23: NextOccurrence returns the earliest matching date after the
\* reference: for every recurring pattern and reference date the returned
\* date is an occurrence of the pattern after the reference date, and no
\* calendar date strictly between the two is an occurrence
C23_EarliestOccurrence ==
    (Returned /\ pat # PatternNone) =>
        /\ err = Nil
        /\ DayNumber(result) > DayNumber(after)
        /\ IsOccurrence(pat, result.year, result.month, result.day)
        /\ NoOccurrenceBetween(pat, after, result)

\* C24: for any recurring task and any sequence of complete or skip
\* commands, the dates of the successive instances are strictly
\* increasing: the instance a command generates is dated after the
\* instance it was generated from
C24_DatesIncrease ==
    ((Ran("complete") \/ Ran("skip")) /\ Len(tasks) > Len(before.tasks)) =>
        After(tasks[Len(tasks)].date, before.tasks[TaskOfCommand].date)

\* the normalised text s is matched by one of the more specific rules
\* (weekly, Nth-weekday, last-weekend) and by the monthly-day rule too
MatchedByBoth(s) ==
    /\ weeklyRegex(s) # NoMatch \/ nthWeekdayRegex(s) # NoMatch \/ lastWeekendRegex(s)
    /\ monthlyRegex(s) # NoMatch

\* C25 as stated: the order in which ParsePattern tries its alternatives
\* matters: among the input texts, the one at hand included, there is one
\* accepted by one of the more specific rules that the monthly-day rule's
\* expression also matches
C25_OrderMatters ==
    \E x \in {TextOf(f) : f \in InputForms} \cup {input} :
        MatchedByBoth(ToLower(TrimSpace(x)))

\* C25 amended: no input is matched both by a more specific rule and by the
\* monthly-day rule, so the order in which the alternatives are tried does
\* not change the result of any input
C25_AlternativesExclusive ==
    Parsed => ~MatchedByBoth(ToLower(TrimSpace(input)))

\* an input that starts like a day of the month and is accepted by the
\* Nth-weekday rule
C25_Witness ==
    /\ Parsed
    /\ input = <<"1", "s", "t", " ", "w", "e", "e", "k", "d", "a", "y", " ", "o", "f", " ", "t", "h", "e", " ", "m", "o", "n", "t", "h">>
    /\ nthWeekdayRegex(ToLower(TrimSpace(input))) # NoMatch
    /\ pat = NthWeekdayPattern(1)

\* C26: an input that is empty once surrounding white space is trimmed (a
\* string of spaces only) is handled like the empty input: ParsePattern
\* returns the none pattern with no error
C26_BlankIsNone ==
    (Parsed /\ TrimSpace(input) = <<>>) => (perr = Nil /\ pat = PatternNone)

-----------------------------------------------------------------------------
(* Claims about the first instance of a recurring task *)

\* C27: NewRecurringTask dates the first instance at the first occurrence
\* of the pattern on or after today's calendar date (today itself when it
\* matches the pattern): for every recurring pattern and every current
\* date the date of the new task is never before today, it is an
\* occurrence of the pattern, and no date from today up to it is one
C27_FirstInstanceNotBeforeToday ==
    (pc = "created" /\ pat # PatternNone) =>
        /\ err = Nil
        /\ DayNumber(result) >= DayNumber(after)
        /\ IsOccurrence(pat, result.year, result.month, result.day)
        /\ NoOccurrenceBetween(pat, AddDate(after, 0, 0, -1), result)

-----------------------------------------------------------------------------
(* Claims about commands repeated on the same task *)

\* two tasks with the same title, pattern and date
Alike(a, b) == a.title = b.title /\ a.pattern = b.pattern /\ a.date = b.date

\* C28: complete and skip generate a successor every time they run on a
\* recurring task, whether or not the task is already completed or
\* skipped or already has a successor: the store gains one task each
\* time, and after a run on a task that was already marked the store
\* holds two successor instances with the same date, title and pattern
C28_SuccessorEveryTime ==
    (MarkedTask /\ IsRecurring(before.tasks[TaskOfCommand].pattern)) =>
        /\ cmd.err = Nil
        /\ Len(tasks) = Len(before.tasks) + 1
        /\ (before.tasks[TaskOfCommand].completed \/ before.tasks[TaskOfCommand].skipped) =>
               \E i \in 1..Len(before.tasks) :
                   /\ i # TaskOfCommand
                   /\ Alike(tasks[i], tasks[Len(tasks)])

\* complete has run a second time on task 1: tasks 2 and 3 are its two
\* successors
C28_Witness ==
    /\ Ran("complete")
    /\ TaskOfCommand = 1
    /\ before.tasks[1].completed
    /\ Len(before.tasks) = 2
    /\ Len(tasks) = 3
    /\ IsRecurring(tasks[1].pattern)
    /\ Alike(tasks[2], tasks[3])
    /\ tasks[2].date # tasks[1].date

\* C29: complete and skip persist the completed or skipped flag before
\* they generate the successor: when NextOccurrence fails for a task
\* whose stored pattern is non-empty but malformed, the command returns
\* an error, the task is completed (or skipped) in the store, nothing
\* else of the store has changed and no successor is created
C29_FlagKeptWhenGenerationFails ==
    (/\ MarkedTask
     /\ before.tasks[TaskOfCommand].pattern # PatternNone
     /\ NextOccurrence(before.tasks[TaskOfCommand].pattern,
                       before.tasks[TaskOfCommand].date).err # Nil) =>
        /\ cmd.err = "failed to generate next instance"
        /\ Len(tasks) = Len(before.tasks)
        /\ cmd.name = "complete" =>
               tasks = [before.tasks EXCEPT ![TaskOfCommand].completed = TRUE]
        /\ cmd.name = "skip" =>
               tasks = [before.tasks EXCEPT ![TaskOfCommand].skipped = TRUE]
        /\ tags = before.tags
        /\ taskTags = before.taskTags

\* complete has run on a task stored with the pattern "monthly:32"
C29_Witness ==
    /\ cmd.name = "complete"
    /\ cmd.err = "failed to generate next instance"
    /\ Len(before.tasks) = 1
    /\ before.tasks[1].pattern = <<"m", "o", "n", "t", "h", "l", "y", ":", "3", "2">>
    /\ ~before.tasks[1].completed
    /\ Len(tasks) = 1
    /\ tasks[1].completed

-----------------------------------------------------------------------------
(* Claims about the place of the n-th weekday in its month *)

\* the pattern asks for the n-th weekday of the month
AsksNthWeekday(n) == Returned /\ pat = NthWeekdayPattern(n)

\* where the first loop of nextNthWeekdayOccurrence stops in the month of
\* the reference
ScanOfMonth(n) ==
    NthScanThisMonth(Date(after.year, after.month, 1, 0, 0, 0), after.month, 0, n, after).time

\* C30: for every month and every n in 1..5 the n-th Monday-to-Friday day
\* exists and its day-of-month is at most n + 2, so within the first 7
\* days: the scan of a month reaches count n before it leaves the month,
\* and every date returned for the n-th weekday pattern has a day-of-month
\* of at most n + 2
C30_NthWeekdayInFirstSeven ==
    \A n \in 1..5 :
        AsksNthWeekday(n) =>
            /\ err = Nil
            /\ \E d \in n..(n + 2) :
                   /\ IsMonToFri(after.year, after.month, d)
                   /\ Cardinality({k \in 1..d : IsMonToFri(after.year, after.month, k)}) = n
            /\ ScanOfMonth(n).month = after.month
            /\ ScanOfMonth(n).day <= n + 2
            /\ result.day >= n
            /\ result.day <= n + 2
            /\ result.day <= 7
            /\ isWeekday(Weekday(result))

\* the fifth weekday of March 2025, a month that begins on a Saturday, is
\* the 7th
C30_Witness ==
    /\ AsksNthWeekday(5)
    /\ after = Date(2025, 3, 7, 0, 0, 0)
    /\ ScanOfMonth(5) = Date(2025, 3, 7, 0, 0, 0)
    /\ result = Date(2025, 4, 7, 0, 0, 0)
====
